---- MODULE Spec2Model ----
(***************************************************************************)
(* Model of the clac RPN calculator engine (package clac): the working     *)
(* stack, the undo/redo history (stackHist), the Exec command wrapper and  *)
(* the stack primitives and commands of clac.go / ops.go.                  *)
(*                                                                         *)
(* Go slices are 0-indexed with index 0 the top of the stack ("x"); the    *)
(* model keeps the 0-based positions of the code in every argument and     *)
(* converts to the 1-based TLA+ sequences inside the primitives.  The      *)
(* cursor stackHist.cur is kept 0-based, so the snapshot at the cursor is  *)
(* hist[cur + 1].                                                          *)
(*                                                                         *)
(* Numeric values (ivy value.Value) are modelled in fixed point: the       *)
(* integer k stands for the number k / Unit, so value.Int(n) is n * Unit.  *)
(* A whole number beyond MaxInt is an ivy BigInt, not a value.Int.  The    *)
(* ivy evaluator is modelled on these numbers, with its panics (division   *)
(* by zero) turned into the error value ErrIvy as unary()/binary()/errVal()*)
(* do.                                                                     *)
(*                                                                         *)
(* A Go function that tests an intermediate result several times is        *)
(* written as two operators: f computes the intermediate result and hands  *)
(* it to fOf (or fAt), which holds the rest of the function body.          *)
(***************************************************************************)
EXTENDS Integers, Sequences, FiniteSets, TLC

VARIABLES working, keepHist, hist, cur, op, err, ret, run, mem

vars == <<working, keepHist, hist, cur, op, err, ret, run, mem>>

(***************************************************************************)
(* Bounds of the model.                                                    *)
(***************************************************************************)
\* largest value on the stack (pushed by the caller or left by a command)
MaxVal == 1
\* largest stack depth a command may leave
MaxDepth == 2
\* largest number of snapshots the history may hold
MaxHist == 3

\* denominator of the modelled numbers: k stands for k / Unit
Unit == 2
\* largest whole number held by a value.Int (the width of a Go int)
MaxInt == 3

\* most spare cells append leaves behind a slice it allocates
MaxSpare == 1

\* longest run of commands followed by the undo/redo round trip
MaxRun == MaxHist - 1

\* value.Int(n)
Num(n) == n * Unit

\* the whole numbers 0..MaxVal, the values the front end pushes in the model
Vals == {Num(n) : n \in 0..MaxVal}

(***************************************************************************)
(* Error values (clac.go, var block) and the nil error.                    *)
(***************************************************************************)
Nil == "nil"
ErrTooFewArgs == "too few arguments"
ErrInvalidArg == "invalid argument"
ErrNoMoreChanges == "no more changes"
ErrNoHistUpdate == "no history update"
\* the error of the older revisions for a count or index below its bound,
\* which clac.go no longer declares
ErrOutOfRange == "argument out of range"
\* an error raised by the ivy evaluator, recovered by errVal
ErrIvy == "ivy: division by zero"
\* the error dmenuConv makes of a failed run of units
ErrUnits == "conformability error"
\* the run-time panic of Go on vals[i] with i >= len(vals), which nothing in
\* clac.go or ops.go recovers: the call does not return
PanicIndex == "panic: runtime error: index out of range"

zero == 0

\* the arity of the commands that pop their operand count (ops.go)
variadic == -1

(***************************************************************************)
(* stackHist: the record [hist, cur].                                      *)
(***************************************************************************)
newStackHist == [hist |-> << <<>> >>, cur |-> 0]

\* variant of undo that refuses to go back to the first snapshot
histUndoKeepsFirst(h) ==
    IF h.cur <= 1
    THEN [h |-> h, ok |-> FALSE]
    ELSE [h |-> [h EXCEPT !.cur = h.cur - 1], ok |-> TRUE]

\* variant of undo that goes back to the first snapshot in one step
histUndoToStart(h) ==
    IF h.cur <= 0
    THEN [h |-> h, ok |-> FALSE]
    ELSE [h |-> [h EXCEPT !.cur = 0], ok |-> TRUE]

\* stackHist.undo: [h (the history afterwards), ok (the result)]
histUndo(h) ==
    IF h.cur <= 0
    THEN [h |-> h, ok |-> FALSE]
    ELSE [h |-> [h EXCEPT !.cur = h.cur - 1], ok |-> TRUE]

\* stackHist.redo
histRedo(h) ==
    IF h.cur >= Len(h.hist) - 1
    THEN [h |-> h, ok |-> FALSE]
    ELSE [h |-> [h EXCEPT !.cur = h.cur + 1], ok |-> TRUE]

\* variant of push that keeps the snapshots after the cursor: the new snapshot
\* overwrites the one after the cursor, or is appended at the tail
histPushNoTruncate(h, stack) ==
    IF h.cur + 1 < Len(h.hist)
    THEN [hist |-> [h.hist EXCEPT ![h.cur + 2] = stack], cur |-> h.cur + 1]
    ELSE [hist |-> Append(h.hist, stack), cur |-> h.cur + 1]

\* variant of push that stores the snapshot and leaves the cursor where it was
histPushKeepsCursor(h, stack) ==
    [hist |-> Append(SubSeq(h.hist, 1, h.cur + 1), stack), cur |-> h.cur]

\* stackHist.push: append(s.hist[:s.cur+1], stack); s.cur++
histPush(h, stack) ==
    [hist |-> Append(SubSeq(h.hist, 1, h.cur + 1), stack), cur |-> h.cur + 1]

\* stackHist.replace: s.hist[s.cur] = stack
histReplace(h, stack) ==
    [h EXCEPT !.hist[h.cur + 1] = stack]

\* stackHist.stack
histStack(h) == h.hist[h.cur + 1]

(***************************************************************************)
(* Stack primitives of Clac, as functions of the working stack w.          *)
(***************************************************************************)
\* variant of checkRange that takes a negative start for a missing argument
checkRangeOfNegativeStart(max, start, end) ==
    IF start > end
    THEN [start |-> 0, end |-> 0, err |-> ErrInvalidArg]
    ELSE IF start < 0 \/ start >= max \/ end >= max
         THEN [start |-> 0, end |-> 0, err |-> ErrTooFewArgs]
         ELSE [start |-> start, end |-> end, err |-> Nil]

\* Clac.checkRange, from max, start and end on
checkRangeOf(max, start, end) ==
    IF start < 0 \/ start > end
    THEN [start |-> 0, end |-> 0, err |-> ErrInvalidArg]
    ELSE IF start >= max \/ end >= max
         THEN [start |-> 0, end |-> 0, err |-> ErrTooFewArgs]
         ELSE [start |-> start, end |-> end, err |-> Nil]

\* Clac.checkRange
checkRange(w, pos, num, isEndOK) ==
    checkRangeOf(IF isEndOK THEN Len(w) + 1 ELSE Len(w), pos, pos + num - 1)

\* Clac.insert, after checkRange returned r
insertAt(w, vs, r) ==
    IF r.err # Nil
    THEN [w |-> w, err |-> r.err]
    ELSE [w |-> SubSeq(w, 1, r.start) \o vs \o SubSeq(w, r.start + 1, Len(w)),
          err |-> Nil]

\* Clac.insert
insert(w, vs, pos) == insertAt(w, vs, checkRange(w, pos, 1, TRUE))

\* Clac.push
push(w, x) == insert(w, <<x>>, 0)

\* Clac.remove, after checkRange returned r
removeAt(w, r) ==
    IF r.err # Nil
    THEN [w |-> w, vals |-> <<>>, err |-> r.err]
    ELSE [w |-> SubSeq(w, 1, r.start) \o SubSeq(w, r.end + 2, Len(w)),
          vals |-> SubSeq(w, r.start + 1, r.end + 1),
          err |-> Nil]

\* variant of remove that cuts the stack at pos before it finds the end of the
\* range beyond the bottom
removeCutsFirst(w, pos, num) ==
    IF pos >= 0 /\ num >= 1 /\ pos < Len(w) /\ pos + num - 1 >= Len(w)
    THEN [w |-> SubSeq(w, 1, pos), vals |-> <<>>, err |-> ErrTooFewArgs]
    ELSE removeAt(w, checkRange(w, pos, num, FALSE))

\* Clac.remove
remove(w, pos, num) == removeAt(w, checkRange(w, pos, num, FALSE))

\* Clac.pop, after remove returned r
popOf(r) ==
    IF r.err # Nil
    THEN [w |-> r.w, val |-> zero, err |-> r.err]
    ELSE [w |-> r.w, val |-> r.vals[1], err |-> r.err]

\* variant of pop that takes the value at the bottom of the stack
popBottom(w) == popOf(remove(w, Len(w) - 1, 1))

\* Clac.pop
pop(w) == popOf(remove(w, 0, 1))

\* the dynamic type of a value is value.Int: a whole number of int width
IsInt(val) == val % Unit = 0 /\ val >= Num(0 - MaxInt) /\ val <= Num(MaxInt)

\* the ivy evaluator, value.Unary, restricted to floor and ceil
unary(o, a) ==
    CASE o = "floor" -> [val |-> a - (a % Unit), err |-> Nil]
      [] o = "ceil" -> [val |-> a + ((0 - a) % Unit), err |-> Nil]

\* isTrue(binary(val, ">=", zero))
isTrue(val) == IF ~IsInt(val) THEN TRUE ELSE val # 0

\* variant of Trunc that rounds down whatever the sign
TruncAlwaysFloor(val) == unary("floor", val)

\* Trunc: floor for val >= 0, ceil otherwise
Trunc(val) ==
    unary(IF isTrue(IF val >= zero THEN Num(1) ELSE Num(0)) THEN "floor" ELSE "ceil",
          val)

\* valToInt, after Trunc returned t
valToIntOf(t) ==
    IF t.err # Nil THEN [n |-> 0, err |-> t.err]
    ELSE IF ~IsInt(t.val) THEN [n |-> 0, err |-> ErrInvalidArg]
    ELSE [n |-> t.val \div Unit, err |-> Nil]

\* valToInt
valToInt(val) == valToIntOf(Trunc(val))

\* variant of popIntMin that reports a missing argument below the bound
popIntMinOfTooFew(p, v, min) ==
    IF p.err # Nil THEN [w |-> p.w, n |-> 0, err |-> p.err]
    ELSE IF v.err # Nil THEN [w |-> p.w, n |-> 0, err |-> v.err]
    ELSE IF v.n < min THEN [w |-> p.w, n |-> 0, err |-> ErrTooFewArgs]
    ELSE [w |-> p.w, n |-> v.n, err |-> Nil]

\* Clac.popIntMin, after pop returned p and valToInt returned v
popIntMinOf(p, v, min) ==
    IF p.err # Nil THEN [w |-> p.w, n |-> 0, err |-> p.err]
    ELSE IF v.err # Nil THEN [w |-> p.w, n |-> 0, err |-> v.err]
    ELSE IF v.n < min THEN [w |-> p.w, n |-> 0, err |-> ErrInvalidArg]
    ELSE [w |-> p.w, n |-> v.n, err |-> Nil]

\* Clac.popIntMin, after pop returned p
popIntMinAt(p, min) == popIntMinOf(p, valToInt(p.val), min)

\* Clac.popIntMin
popIntMin(w, min) == popIntMinAt(pop(w), min)

\* Clac.popIndex
popIndex(w) == popIntMin(w, 0)

\* Clac.popCount
popCount(w) == popIntMin(w, 1)

\* Clac.vals, after checkRange returned r
valsAt(w, r) ==
    IF r.err # Nil
    THEN [vals |-> <<>>, err |-> r.err]
    ELSE [vals |-> SubSeq(w, r.start + 1, r.end + 1), err |-> Nil]

\* Clac.vals
vals(w, pos, num) == valsAt(w, checkRange(w, pos, num, FALSE))

\* Clac.dup, after vals returned v
dupOf(w, v) ==
    IF v.err # Nil THEN [w |-> w, err |-> v.err] ELSE insert(w, v.vals, 0)

\* variant of dup that copies the top num values whatever pos is
dupFromTop(w, pos, num) == dupOf(w, vals(w, 0, num))

\* Clac.dup
dup(w, pos, num) == dupOf(w, vals(w, pos, num))

\* Clac.drop, after remove returned r
dropOf(r) == [w |-> r.w, err |-> r.err]

\* Clac.drop
drop(w, pos, num) == dropOf(remove(w, pos, num))

\* Clac.rotate, after remove returned r
rotateOf(r, to) ==
    IF r.err # Nil THEN [w |-> r.w, err |-> r.err] ELSE insert(r.w, r.vals, to)

\* variant of rotate that moves the range at pos to the top in both directions
rotateAlwaysDown(w, pos, num, isDown) == rotateOf(remove(w, pos, num), 0)

\* variant of rotate that takes pos for the last index of the range moved up
rotateToRangeEnd(w, pos, num, isDown) ==
    rotateOf(remove(w, IF isDown THEN pos ELSE 0, num),
             IF isDown THEN 0 ELSE pos - num + 1)

\* variant of rotate that takes the range at pos in both directions
rotateUpInPlace(w, pos, num, isDown) ==
    rotateOf(remove(w, pos, num), IF isDown THEN 0 ELSE pos)

\* Clac.rotate: from, to := 0, pos, swapped when isDown
rotate(w, pos, num, isDown) ==
    rotateOf(remove(w, IF isDown THEN pos ELSE 0, num), IF isDown THEN 0 ELSE pos)

(***************************************************************************)
(* The ivy evaluator: binary(a, op, b) with errVal(recover()).             *)
(***************************************************************************)
binary(a, o, b) ==
    CASE o = "+" -> [val |-> a + b, err |-> Nil]
      [] o = "-" -> [val |-> a - b, err |-> Nil]
      [] o = "*" -> [val |-> (a * b) \div Unit, err |-> Nil]
      [] o = "/" -> IF b = 0 THEN [val |-> zero, err |-> ErrIvy]
                    ELSE IF b < 0 THEN [val |-> (0 - a * Unit) \div (0 - b), err |-> Nil]
                    ELSE [val |-> (a * Unit) \div b, err |-> Nil]
      [] o = "div" -> IF b = 0 THEN [val |-> zero, err |-> ErrIvy]
                      ELSE IF b < 0
                      THEN [val |-> Num(0 - ((a \div Unit) \div ((0 - b) \div Unit))),
                            err |-> Nil]
                      ELSE [val |-> Num((a \div Unit) \div (b \div Unit)), err |-> Nil]
      [] o = "min" -> [val |-> IF a < b THEN a ELSE b, err |-> Nil]

\* the exact result of binary is a multiple of 1 / Unit
Representable(a, o, b) ==
    /\ (o = "/" /\ b # 0) => (a * Unit) % (IF b < 0 THEN 0 - b ELSE b) = 0
    /\ o = "*" => (a * b) % Unit = 0

(***************************************************************************)
(* Commands of ops.go.  A command acts on the Clac object                  *)
(*   c = [working, keepHist, hist |-> [hist, cur]]                         *)
(* and returns the object as it leaves it together with its error.         *)
(***************************************************************************)
\* kernel of Clac.Add: binary(vals[1], "+", vals[0])
AddKernel(v) == binary(v[2], "+", v[1])

\* variant of the kernel of Div that divides x by y
DivKernelSwapped(v) == binary(v[1], "/", v[2])

\* kernel of Clac.Div: binary(vals[1], "/", vals[0])
DivKernel(v) == binary(v[2], "/", v[1])

\* kernel of Clac.Sub: binary(vals[1], "-", vals[0])
SubKernel(v) == binary(v[2], "-", v[1])

\* kernel of Clac.Mul: binary(vals[1], "*", vals[0])
MulKernel(v) == binary(v[2], "*", v[1])

RECURSIVE reduceFloat(_, _, _)

\* reduceFloat, after f (binary with the operator o) returned r
reduceFloatOf(r, vs, o) ==
    IF r.err # Nil THEN [val |-> zero, err |-> r.err] ELSE reduceFloat(r.val, vs, o)

\* reduceFloat(initVal, vals, f), the loop from the value val on
reduceFloat(val, vs, o) ==
    IF vs = <<>> THEN [val |-> val, err |-> Nil]
    ELSE reduceFloatOf(binary(val, o, Head(vs)), Tail(vs), o)

\* kernel of Clac.Sum: reduceFloat(zero, vals, binary(a, "+", b))
SumKernel(v) == reduceFloat(zero, v, "+")

\* kernel of Clac.Floor: unary("floor", vals[0])
FloorKernel(v) == unary("floor", v[1])

\* the floatFunc literals of ops.go, by the command that passes them
floatFunc(f, v) ==
    CASE f = "Add" -> AddKernel(v)
      [] f = "Sub" -> SubKernel(v)
      [] f = "Mul" -> MulKernel(v)
      [] f = "Div" -> DivKernel(v)
      [] f = "Sum" -> SumKernel(v)
      [] f = "Floor" -> FloorKernel(v)

\* Clac.applyFloat, after f returned res on the stack w left by remove
applyFloatPush(w, res) ==
    IF res.err # Nil THEN [w |-> w, err |-> res.err] ELSE push(w, res.val)

\* variant of applyFloat that leaves the last operand on the stack
applyFloatOfKeepsLast(r, f) ==
    IF r.err # Nil THEN [w |-> r.w, err |-> r.err]
    ELSE applyFloatPush(<<r.vals[Len(r.vals)]>> \o r.w, floatFunc(f, r.vals))

\* Clac.applyFloat, after remove returned r
applyFloatOf(r, f) ==
    IF r.err # Nil THEN [w |-> r.w, err |-> r.err]
    ELSE applyFloatPush(r.w, floatFunc(f, r.vals))

\* variant of applyFloat that takes the operands there are before it finds
\* that they are too few
applyFloatAtTakesFirst(n, f) ==
    IF n.err # Nil THEN [w |-> n.w, err |-> n.err]
    ELSE IF n.n > Len(n.w) THEN [w |-> <<>>, err |-> ErrTooFewArgs]
    ELSE applyFloatOf(remove(n.w, 0, n.n), f)

\* Clac.applyFloat, after the arity was settled: n = [w, n, err]
applyFloatAt(n, f) ==
    IF n.err # Nil THEN [w |-> n.w, err |-> n.err]
    ELSE applyFloatOf(remove(n.w, 0, n.n), f)

\* Clac.applyFloat; f names the kernel, which returns [val, err]
applyFloat(w, arity, f) ==
    applyFloatAt(IF arity < 0 THEN popCount(w) ELSE [w |-> w, n |-> arity, err |-> Nil],
                 f)

\* variant of Undo that returns nil after moving the cursor
UndoOfReturnsNil(c, r) ==
    IF ~r.ok THEN [c |-> c, err |-> ErrNoMoreChanges]
    ELSE [c |-> [c EXCEPT !.hist = r.h], err |-> Nil]

\* kernel of Clac.IntDiv: binary(vals[1], "div", vals[0])
IntDivKernel(v) == binary(v[2], "div", v[1])

\* the intFunc literals of ops.go, by the command that passes them
intFunc(f, v) ==
    CASE f = "IntDiv" -> IntDivKernel(v)

RECURSIVE truncVals(_, _)

\* the loop of applyInt, after Trunc returned t for the value at the head of vs
truncValsOf(t, ivals, vs) ==
    IF t.err # Nil THEN [vals |-> ivals, err |-> t.err]
    ELSE truncVals(Append(ivals, t.val), Tail(vs))

\* the loop ivals[i], err = Trunc(v) of applyInt, with ivals filled so far
truncVals(ivals, vs) ==
    IF vs = <<>> THEN [vals |-> ivals, err |-> Nil]
    ELSE truncValsOf(Trunc(Head(vs)), ivals, vs)

\* Clac.applyInt, after the loop returned t on the stack w left by remove
applyIntPush(w, t, f) ==
    IF t.err # Nil THEN [w |-> w, err |-> t.err]
    ELSE applyFloatPush(w, intFunc(f, t.vals))

\* Clac.applyInt, after remove returned r
applyIntOf(r, f) ==
    IF r.err # Nil THEN [w |-> r.w, err |-> r.err]
    ELSE applyIntPush(r.w, truncVals(<<>>, r.vals), f)

\* Clac.applyInt, after the arity was settled: n = [w, n, err]
applyIntAt(n, f) ==
    IF n.err # Nil THEN [w |-> n.w, err |-> n.err]
    ELSE applyIntOf(remove(n.w, 0, n.n), f)

\* Clac.applyInt; f names the kernel, which returns [val, err]
applyInt(w, arity, f) ==
    applyIntAt(IF arity < 0 THEN popCount(w) ELSE [w |-> w, n |-> arity, err |-> Nil],
               f)

(***************************************************************************)
(* RectToPolar and PolarToRect.  The square root, the arc tangent, the     *)
(* cosine and the sine of ivy are outside the fixed-point numbers of the   *)
(* model: what the evaluator returns for them, a number or a panic that    *)
(* errVal turns into an error, is an outcome [val, err] handed to the      *)
(* command (sq, at, co, si).  The steps of a command carry s = [w, val,    *)
(* err]: the stack, the value of the last e.e() call and e.err.            *)
(***************************************************************************)
\* the outcomes of an evaluator call
EvalOutcomes ==
    {[val |-> v, err |-> Nil] : v \in Vals} \cup {[val |-> zero, err |-> ErrIvy]}

\* value.Consts: pi, in the numbers of the model
Pi == (314 * Unit) \div 100

\* eval.e with e.err = e: f, whose result is r, is skipped once e.err is set
evalE(w, e, r) == IF e # Nil THEN [w |-> w, val |-> zero, err |-> e] ELSE r

\* the result r = [val, err] of a computation, which leaves the stack w alone
Pure(w, r) == [w |-> w, val |-> r.val, err |-> r.err]

\* func() (value.Value, error) { return zero, c.push(v) }, push returning r
PushOf(r) == [w |-> r.w, val |-> zero, err |-> r.err]

\* return e.err
evalEnd(s) == [w |-> s.w, err |-> s.err]

\* hypot: sqrt(x*x + y*y), the sum of squares never failing
hypot(x, y, sq) == sq

\* unary("sgn", y)
sgn(y) == IF y > 0 THEN Num(1) ELSE IF y < 0 THEN Num(0 - 1) ELSE zero

\* atan2: the special cases y = 0 and x = 0, else atan(y / x) moved by pi
atan2(x, y, at) ==
    IF y = zero THEN [val |-> IF x < zero THEN Pi ELSE zero, err |-> Nil]
    ELSE IF x = zero
    THEN binary(binary(Pi, "/", Num(2)).val, "*", sgn(y))
    ELSE at

\* RectToPolar: e.e(push(angle)); return e.err
rtpPushAngle(s) == evalEnd(evalE(s.w, s.err, PushOf(push(s.w, s.val))))

\* RectToPolar: angle := e.e(atan2(x, y))
rtpAngle(s, x, y, at) ==
    rtpPushAngle(evalE(s.w, s.err, Pure(s.w, atan2(x, y, at))))

\* RectToPolar: e.e(push(radius))
rtpPushRadius(s, x, y, at) ==
    rtpAngle(evalE(s.w, s.err, PushOf(push(s.w, s.val))), x, y, at)

\* RectToPolar: radius := e.e(hypot(x, y))
rtpRadius(s, y, sq, at) ==
    rtpPushRadius(evalE(s.w, s.err, Pure(s.w, hypot(s.val, y, sq))), s.val, y, at)

\* RectToPolar: x := e.e(c.pop())
rtpX(s, sq, at) == rtpRadius(evalE(s.w, s.err, pop(s.w)), s.val, sq, at)

\* RectToPolar on the stack w: y := e.e(c.pop()) and the rest
rectToPolar(w, sq, at) == rtpX(evalE(w, Nil, pop(w)), sq, at)

\* unary("cos", angle) and unary("sin", angle): exact at 0
cos(angle, co) == IF angle = zero THEN [val |-> Num(1), err |-> Nil] ELSE co
sin(angle, si) == IF angle = zero THEN [val |-> zero, err |-> Nil] ELSE si

\* e.binary(radius, "*", e.unary(...)), the unary call having left u
ptrMul(radius, u) == evalE(u.w, u.err, Pure(u.w, binary(radius, "*", u.val)))

\* PolarToRect: e.e(push(y)); return e.err
ptrPushY(s) == evalEnd(evalE(s.w, s.err, PushOf(push(s.w, s.val))))

\* PolarToRect: y := e.binary(radius, "*", e.unary("sin", angle))
ptrY(s, angle, radius, si) ==
    ptrPushY(ptrMul(radius, evalE(s.w, s.err, Pure(s.w, sin(angle, si)))))

\* PolarToRect: e.e(push(x))
ptrPushX(s, angle, radius, si) ==
    ptrY(evalE(s.w, s.err, PushOf(push(s.w, s.val))), angle, radius, si)

\* PolarToRect: x := e.binary(radius, "*", e.unary("cos", angle))
ptrX(s, angle, co, si) ==
    ptrPushX(ptrMul(s.val, evalE(s.w, s.err, Pure(s.w, cos(angle, co)))),
             angle, s.val, si)

\* PolarToRect: radius := e.e(c.pop())
ptrRadius(s, co, si) == ptrX(evalE(s.w, s.err, pop(s.w)), s.val, co, si)

\* PolarToRect on the stack w: angle := e.e(c.pop()) and the rest
polarToRect(w, co, si) == ptrRadius(evalE(w, Nil, pop(w)), co, si)

\* Clac.Undo, after hist.undo returned r
UndoOf(c, r) ==
    IF ~r.ok THEN [c |-> c, err |-> ErrNoMoreChanges]
    ELSE [c |-> [c EXCEPT !.hist = r.h], err |-> ErrNoHistUpdate]

\* Clac.Undo
Undo(c) == UndoOf(c, histUndo(c.hist))

\* Clac.Redo, after hist.redo returned r
RedoOf(c, r) ==
    IF ~r.ok THEN [c |-> c, err |-> ErrNoMoreChanges]
    ELSE [c |-> [c EXCEPT !.hist = r.h], err |-> ErrNoHistUpdate]

\* Clac.Redo
Redo(c) == RedoOf(c, histRedo(c.hist))

\* variant of Reset that keeps the history
ResetKeepsHist(c) ==
    [c |-> [c EXCEPT !.working = <<>>], err |-> ErrNoHistUpdate]

\* variant of Reset that returns nil
ResetReturnsNil(c) ==
    [c |-> [c EXCEPT !.working = <<>>, !.hist = newStackHist], err |-> Nil]

\* Clac.Reset
Reset(c) ==
    [c |-> [c EXCEPT !.working = <<>>, !.hist = newStackHist], err |-> ErrNoHistUpdate]

\* Clac.Clear
Clear(c) ==
    IF Len(c.working) = 0
    THEN [c |-> c, err |-> ErrNoHistUpdate]
    ELSE [c |-> [c EXCEPT !.working = <<>>], err |-> Nil]

\* a command that touches the working stack only: r = [w, err]
OnWorking(c, r) == [c |-> [c EXCEPT !.working = r.w], err |-> r.err]

\* Clac.Push
Push(c, a) == OnWorking(c, push(c.working, a))

\* Clac.Drop
Drop(c) == OnWorking(c, drop(c.working, 0, 1))

\* Clac.DropN, after popCount returned n
DropNOf(n) ==
    IF n.err # Nil THEN [w |-> n.w, err |-> n.err] ELSE drop(n.w, 0, n.n)

\* Clac.DropN
DropN(c) == OnWorking(c, DropNOf(popCount(c.working)))

\* Clac.Dup
Dup(c) == OnWorking(c, dup(c.working, 0, 1))

\* Clac.rot, after popIndex returned n
rotOf(n, isDown) ==
    IF n.err # Nil THEN [w |-> n.w, err |-> n.err] ELSE rotate(n.w, n.n, 1, isDown)

\* Clac.rot
rot(w, isDown) == rotOf(popIndex(w), isDown)

\* Clac.Rot
Rot(c) == OnWorking(c, rot(c.working, TRUE))

\* Clac.Unrot
Unrot(c) == OnWorking(c, rot(c.working, FALSE))

\* Clac.DupN, after popCount returned n
DupNOf(n) ==
    IF n.err # Nil THEN [w |-> n.w, err |-> n.err] ELSE dup(n.w, 0, n.n)

\* Clac.DupN
DupN(c) == OnWorking(c, DupNOf(popCount(c.working)))

\* Clac.Pick, after popIndex returned n
PickOf(n) ==
    IF n.err # Nil THEN [w |-> n.w, err |-> n.err] ELSE dup(n.w, n.n, 1)

\* Clac.Pick
Pick(c) == OnWorking(c, PickOf(popIndex(c.working)))

\* the start of DropR, DupR and rotR, after popCount returned n and popIndex,
\* called if popCount succeeded, returned p: [w, pos, num, err]
popRangeOf(n, p) ==
    IF n.err # Nil THEN [w |-> n.w, pos |-> 0, num |-> 0, err |-> n.err]
    ELSE [w |-> p.w, pos |-> p.n, num |-> n.n, err |-> p.err]

\* variant of that start which pops the index first and then the count
popRangeIndexFirst(w) ==
    popRangeOf([w |-> popCount(popIndex(w).w).w, n |-> popCount(popIndex(w).w).n,
                err |-> IF popIndex(w).err # Nil THEN popIndex(w).err
                        ELSE popCount(popIndex(w).w).err],
               [w |-> popCount(popIndex(w).w).w, n |-> popIndex(w).n, err |-> Nil])

\* the start of DropR, DupR and rotR: num := c.popCount(); pos := c.popIndex()
popRange(w) == popRangeOf(popCount(w), popIndex(popCount(w).w))

\* Clac.DropR, after the count and the index were popped
DropROf(a) ==
    IF a.err # Nil THEN [w |-> a.w, err |-> a.err] ELSE drop(a.w, a.pos, a.num)

\* Clac.DropR
DropR(c) == OnWorking(c, DropROf(popRange(c.working)))

\* Clac.DupR, after the count and the index were popped
DupROf(a) ==
    IF a.err # Nil THEN [w |-> a.w, err |-> a.err] ELSE dup(a.w, a.pos, a.num)

\* Clac.DupR
DupR(c) == OnWorking(c, DupROf(popRange(c.working)))

\* Clac.rotR, after the count and the index were popped
rotROf(a, isDown) ==
    IF a.err # Nil THEN [w |-> a.w, err |-> a.err]
    ELSE rotate(a.w, a.pos, a.num, isDown)

\* Clac.rotR
rotR(w, isDown) == rotROf(popRange(w), isDown)

\* Clac.RotR
RotR(c) == OnWorking(c, rotR(c.working, TRUE))

\* Clac.UnrotR
UnrotR(c) == OnWorking(c, rotR(c.working, FALSE))

\* Clac.Swap
Swap(c) == OnWorking(c, rotate(c.working, 1, 1, TRUE))

\* Clac.Add
Add(c) == OnWorking(c, applyFloat(c.working, 2, "Add"))

\* Clac.Div
Div(c) == OnWorking(c, applyFloat(c.working, 2, "Div"))

\* Clac.Sub
Sub(c) == OnWorking(c, applyFloat(c.working, 2, "Sub"))

\* Clac.Mul
Mul(c) == OnWorking(c, applyFloat(c.working, 2, "Mul"))

\* Clac.Floor
Floor(c) == OnWorking(c, applyFloat(c.working, 1, "Floor"))

\* Clac.IntDiv
IntDiv(c) == OnWorking(c, applyInt(c.working, 2, "IntDiv"))

\* unary("sqrt", x): exact at 0, else what the evaluator returns, sq
sqrt(x, sq) == IF x = zero THEN [val |-> zero, err |-> Nil] ELSE sq

\* kernel of Clac.Hypot: hypot(vals[1], vals[0]), which panics on a vals
\* shorter than two
HypotKernel(v, sq) ==
    IF Len(v) < 2 THEN [val |-> zero, err |-> PanicIndex]
    ELSE hypot(v[2], v[1], sq)

(***************************************************************************)
(* The reducing commands with an evaluator that may fail.  ivy is not part *)
(* of the sources: whether a step of a fold makes it panic is an answer of *)
(* the evaluator, ev.bad, the number of the fold step at which it does (0  *)
(* or a number beyond the operands: at none); ev.sq is its square root.    *)
(***************************************************************************)
\* the binFloatFunc literals of MinN, Avg and Mag, without a failure: Mag's
\* is e.binary(a, "+", e.binary(b, "*", b))
foldFunc(o, a, b) ==
    IF o = "mag" THEN binary(a, "+", binary(b, "*", b).val) ELSE binary(a, o, b)

RECURSIVE reduceFloatWith(_, _, _, _)

\* reduceFloat, after f returned r
reduceFloatWithOf(r, vs, o, bad) ==
    IF r.err # Nil THEN [val |-> zero, err |-> r.err]
    ELSE reduceFloatWith(r.val, vs, o, bad)

\* reduceFloat(initVal, vals, f), the loop from the value val on, the
\* evaluator failing in step bad from here
reduceFloatWith(val, vs, o, bad) ==
    IF vs = <<>> THEN [val |-> val, err |-> Nil]
    ELSE reduceFloatWithOf(IF bad = 1 THEN [val |-> zero, err |-> ErrIvy]
                           ELSE foldFunc(o, val, Head(vs)),
                           Tail(vs), o, bad - 1)

\* kernel of Clac.MinN: reduceFloat(vals[0], vals, binary(a, "min", b))
MinNKernel(v, bad) == reduceFloatWith(v[1], v, "min", bad)

\* kernel of Clac.Avg: sum, _ := reduceFloat(zero, vals, +); sum / len(vals)
AvgKernel(v, bad) ==
    binary(reduceFloatWith(zero, v, "+", bad).val, "/", Num(Len(v)))

\* kernel of Clac.Mag: magSq, _ := reduceFloat(zero, vals, ...); sqrt(magSq)
MagKernel(v, bad, sq) == sqrt(reduceFloatWith(zero, v, "mag", bad).val, sq)

\* the floatFunc literals that call the evaluator ev = [bad, sq]
floatFuncWith(f, v, ev) ==
    CASE f = "Hypot" -> HypotKernel(v, ev.sq)
      [] f = "MinN" -> MinNKernel(v, ev.bad)
      [] f = "Avg" -> AvgKernel(v, ev.bad)
      [] f = "Mag" -> MagKernel(v, ev.bad, ev.sq)

\* Clac.applyFloat with the evaluator ev, after remove returned r
applyFloatWithOf(r, f, ev) ==
    IF r.err # Nil THEN [w |-> r.w, err |-> r.err]
    ELSE applyFloatPush(r.w, floatFuncWith(f, r.vals, ev))

\* Clac.applyFloat with the evaluator ev, after the arity was settled
applyFloatWithAt(n, f, ev) ==
    IF n.err # Nil THEN [w |-> n.w, err |-> n.err]
    ELSE applyFloatWithOf(remove(n.w, 0, n.n), f, ev)

\* Clac.applyFloat with the evaluator ev
applyFloatWith(w, arity, f, ev) ==
    applyFloatWithAt(IF arity < 0 THEN popCount(w)
                     ELSE [w |-> w, n |-> arity, err |-> Nil], f, ev)

\* Clac.Hypot: c.applyFloat(1, ...), the evaluator returning sq for the root
Hypot(c, sq) ==
    OnWorking(c, applyFloatWith(c.working, 1, "Hypot", [bad |-> 0, sq |-> sq]))

\* Clac.MinN, Clac.Avg and Clac.Mag: c.applyFloat(variadic, ...)
MinN(c, ev) == OnWorking(c, applyFloatWith(c.working, variadic, "MinN", ev))
Avg(c, ev) == OnWorking(c, applyFloatWith(c.working, variadic, "Avg", ev))
Mag(c, ev) == OnWorking(c, applyFloatWith(c.working, variadic, "Mag", ev))

\* Clac.RectToPolar
RectToPolar(c, sq, at) == OnWorking(c, rectToPolar(c.working, sq, at))

\* Clac.PolarToRect
PolarToRect(c, co, si) == OnWorking(c, polarToRect(c.working, co, si))

\* Clac.Sum
Sum(c) == OnWorking(c, applyFloat(c.working, variadic, "Sum"))

\* dmenuConv after cl.Pop() returned p, the dialogs and units answering a =
\* [kind, val]: a dialog was cancelled, units failed, or units gave val
ConvOf(c, p, a) ==
    IF p.err # Nil THEN [c |-> [c EXCEPT !.working = p.w], err |-> p.err]
    ELSE IF a.kind = "cancel"
    THEN [c |-> [c EXCEPT !.working = p.w], err |-> ErrNoHistUpdate]
    ELSE IF a.kind = "fail"
    THEN [c |-> [c EXCEPT !.working = p.w], err |-> ErrUnits]
    ELSE Push([c EXCEPT !.working = p.w], a.val)

\* dmenuConv, the command conv of the dmenu front end
Conv(c, a) == ConvOf(c, pop(c.working), a)

\* the command table (cmdMap of cmd/clac) restricted to the modelled commands
Command(c, cmd) ==
    CASE cmd.name = "Push" -> Push(c, cmd.arg)
      [] cmd.name = "Drop" -> Drop(c)
      [] cmd.name = "DropN" -> DropN(c)
      [] cmd.name = "Dup" -> Dup(c)
      [] cmd.name = "Swap" -> Swap(c)
      [] cmd.name = "Add" -> Add(c)
      [] cmd.name = "Div" -> Div(c)
      [] cmd.name = "Sum" -> Sum(c)
      [] cmd.name = "Clear" -> Clear(c)
      [] cmd.name = "Undo" -> Undo(c)
      [] cmd.name = "Redo" -> Redo(c)
      [] cmd.name = "Reset" -> Reset(c)
      [] cmd.name = "Conv" -> Conv(c, cmd.arg)

(***************************************************************************)
(* Clac.Exec and the other public entry points.                            *)
(***************************************************************************)
\* Clac.updateWorking
updateWorking(c) == [c EXCEPT !.working = histStack(c.hist)]

\* variant of the commit step that ignores keepHist
commitAlwaysPush(c) ==
    [c EXCEPT !.hist = histPush(c.hist, c.working)]

\* the commit step of Exec (the branch taken when the command returns nil)
commit(c) ==
    IF c.keepHist
    THEN [c EXCEPT !.hist = histPush(c.hist, c.working)]
    ELSE [c EXCEPT !.hist = histReplace(c.hist, c.working)]

\* variant of Exec that commits whatever the command returns
ExecOfAlwaysCommits(r) ==
    [c |-> updateWorking(commit(r.c)),
     err |-> r.err,
     ret |-> IF r.err = ErrNoHistUpdate THEN Nil ELSE r.err]

\* variant of Exec that refreshes the working stack after a commit only
ExecOfRefreshesOnCommit(r) ==
    [c |-> IF r.err = Nil THEN updateWorking(commit(r.c)) ELSE r.c,
     err |-> r.err,
     ret |-> IF r.err = ErrNoHistUpdate THEN Nil ELSE r.err]

\* variant of Exec that skips the commit for ErrNoHistUpdate only
ExecOfCommitsOnFailure(r) ==
    [c |-> updateWorking(IF r.err # ErrNoHistUpdate THEN commit(r.c) ELSE r.c),
     err |-> r.err,
     ret |-> IF r.err = ErrNoHistUpdate THEN Nil ELSE r.err]

\* variant of Exec that also commits when the command returns ErrNoHistUpdate
ExecOfCommitsOnNoHistUpdate(r) ==
    [c |-> updateWorking(IF r.err \in {Nil, ErrNoHistUpdate} THEN commit(r.c) ELSE r.c),
     err |-> r.err,
     ret |-> IF r.err = ErrNoHistUpdate THEN Nil ELSE r.err]

\* Clac.Exec, after the command f returned r = [c, err]:
\* [c, err (of the command), ret (of Exec)]
ExecOf(r) ==
    [c |-> updateWorking(IF r.err = Nil THEN commit(r.c) ELSE r.c),
     err |-> r.err,
     ret |-> IF r.err = ErrNoHistUpdate THEN Nil ELSE r.err]

\* Clac.Exec
Exec(c, cmd) == ExecOf(Command(c, cmd))

\* variant of EnableHistory that only sets the flag
EnableHistoryFlagOnly(c, enable) ==
    [c EXCEPT !.keepHist = enable]

\* Clac.EnableHistory
EnableHistoryOf(c, enable) ==
    IF ~enable
    THEN [c EXCEPT !.keepHist = enable, !.hist = newStackHist]
    ELSE [c EXCEPT !.keepHist = enable]

\* New: &Clac{keepHist: true} followed by Reset
New == Reset([working |-> <<>>, keepHist |-> TRUE, hist |-> newStackHist]).c

(***************************************************************************)
(* The state machine.  working, keepHist, hist, cur are the fields of the  *)
(* Clac object.  op, err, ret record the last public call, the error its   *)
(* command returned and the value the call returned.  op.cut is the number *)
(* of snapshots the commit of the call discarded and op.afterCut tells     *)
(* whether the call before it discarded any.  run follows the current run  *)
(* of commands and the Undo and Redo calls that come after it.             *)
(***************************************************************************)
\* the Clac object of the current state
Self == [working |-> working, keepHist |-> keepHist,
         hist |-> [hist |-> hist, cur |-> cur]]

ValuesOf(w) == {w[i] : i \in 1..Len(w)}

\* the commands of the model that work on the stack
StackCmds == {"Push", "Drop", "DropN", "Dup", "Swap", "Add", "Div", "Clear"}

\* a run starting at the history state of c
FreshRun(c) ==
    [s0 |-> histStack(c.hist), n |-> 0, m |-> 0, u |-> 0, r |-> 0,
     sN |-> histStack(c.hist)]

\* run after a stack command that succeeded through Exec
\* (one = [n, m]: the command returned nil, or ErrNoHistUpdate)
TrackCmd(old, c, res, one) ==
    IF old.u = 0 /\ old.r = 0 /\ old.n + old.m < MaxRun
    THEN [old EXCEPT !.n = old.n + one.n, !.m = old.m + one.m, !.sN = res.c.working]
    ELSE [s0 |-> histStack(c.hist), n |-> one.n, m |-> one.m,
          u |-> 0, r |-> 0, sN |-> res.c.working]

\* run after the call of cmd through Exec, from object c with result res:
\*   s0  the stack of the history state the run started from
\*   n   the commands of the run that returned nil
\*   m   the commands of the run that returned ErrNoHistUpdate
\*   u   the Undo calls after the commands, r the Redo calls after those
\*   sN  the stack after the last command of the run
Track(old, c, cmd, res) ==
    IF ~res.c.keepHist THEN FreshRun(res.c)
    ELSE IF cmd.name \in StackCmds
    THEN IF res.ret # Nil THEN FreshRun(res.c)
         ELSE TrackCmd(old, c, res,
                       IF res.err = Nil THEN [n |-> 1, m |-> 0] ELSE [n |-> 0, m |-> 1])
    ELSE IF cmd.name = "Undo"
    THEN IF old.n + old.m >= 1 /\ old.r = 0 /\ old.u < old.n + old.m
         THEN [old EXCEPT !.u = old.u + 1] ELSE FreshRun(res.c)
    ELSE IF cmd.name = "Redo"
    THEN IF old.n + old.m >= 1 /\ old.u = old.n + old.m /\ old.r < old.n + old.m
         THEN [old EXCEPT !.r = old.r + 1] ELSE FreshRun(res.c)
    ELSE FreshRun(res.c)

\* the bounds of the model: the call is taken when its result stays inside
InBounds(c, cmd, res) ==
    /\ Len(res.c.hist.hist) <= MaxHist
    /\ Len(res.c.working) <= MaxDepth
    /\ ValuesOf(res.c.working) \subseteq Vals
    /\ (cmd.name = "Div" /\ Len(c.working) >= 2)
          => Representable(c.working[2], "/", c.working[1])

\* the record of a call
Call(name, arg, via, cut) ==
    [name |-> name, arg |-> arg, via |-> via, cut |-> cut, afterCut |-> op.cut >= 1]

Init ==
    /\ working = New.working
    /\ keepHist = New.keepHist
    /\ hist = New.hist.hist
    /\ cur = New.hist.cur
    /\ op = [name |-> "New", arg |-> 0, via |-> "direct", cut |-> 0, afterCut |-> FALSE]
    /\ err = Nil
    /\ ret = Nil
    /\ run = FreshRun(New)
    /\ mem = [arr |-> <<>>, shared |-> {}]

\* the object becomes c2 after the call o, which returned e (command) and t
Becomes(c2, o, e, t) ==
    /\ working' = c2.working
    /\ keepHist' = c2.keepHist
    /\ hist' = c2.hist.hist
    /\ cur' = c2.hist.cur
    /\ op' = o
    /\ err' = e
    /\ ret' = t

\* the snapshots after the cursor of c that the commit of the call discarded
Discarded(c, res) ==
    IF res.err = Nil /\ c.keepHist THEN Len(c.hist.hist) - 1 - c.hist.cur ELSE 0

\* the step of cl.Exec(cmd) that returned res
ExecStep(cmd, res) ==
    /\ InBounds(Self, cmd, res)
    /\ Becomes(res.c, Call(cmd.name, cmd.arg, "Exec", Discarded(Self, res)),
               res.err, res.ret)
    /\ run' = Track(run, Self, cmd, res)
    /\ UNCHANGED mem

\* cl.Exec(cmd), as parseInput calls it
DoExec(cmd) == ExecStep(cmd, Exec(Self, cmd))

ExecPush == \E v \in Vals : DoExec([name |-> "Push", arg |-> v])
ExecDrop == DoExec([name |-> "Drop", arg |-> 0])
ExecDropN == DoExec([name |-> "DropN", arg |-> 0])
ExecDup == DoExec([name |-> "Dup", arg |-> 0])
ExecSwap == DoExec([name |-> "Swap", arg |-> 0])
ExecAdd == DoExec([name |-> "Add", arg |-> 0])
ExecDiv == DoExec([name |-> "Div", arg |-> 0])
ExecClear == DoExec([name |-> "Clear", arg |-> 0])
ExecUndo == DoExec([name |-> "Undo", arg |-> 0])
ExecRedo == DoExec([name |-> "Redo", arg |-> 0])
ExecReset == DoExec([name |-> "Reset", arg |-> 0])

\* the step of a call outside Exec that left the object c2
DirectStep(name, arg, c2, e) ==
    /\ Becomes(c2, Call(name, arg, "direct", 0), e, e)
    /\ run' = FreshRun(c2)
    /\ UNCHANGED mem

\* a direct call of Clac.EnableHistory
EnableHistory ==
    \E enable \in BOOLEAN :
        DirectStep("EnableHistory", IF enable THEN 1 ELSE 0,
                   EnableHistoryOf(Self, enable), Nil)

\* the step of a direct call of a command that returned r = [c, err]
CallStep(name, r) == DirectStep(name, 0, r.c, r.err)

\* a direct call of Clac.Reset
CallReset == CallStep("Reset", Reset(Self))

Next ==
    \/ ExecPush
    \/ ExecDrop
    \/ ExecDropN
    \/ ExecDup
    \/ ExecSwap
    \/ ExecAdd
    \/ ExecDiv
    \/ ExecClear
    \/ ExecUndo
    \/ ExecRedo
    \/ ExecReset
    \/ EnableHistory
    \/ CallReset

Spec == Init /\ [][Next]_vars

\* a direct call cl.Undo(), outside Exec
CallUndo == CallStep("Undo", Undo(Self))

\* a direct call cl.Redo(), outside Exec
CallRedo == CallStep("Redo", Redo(Self))

NextDirect ==
    \/ ExecPush
    \/ ExecReset
    \/ EnableHistory
    \/ CallUndo
    \/ CallRedo

\* the engine with Undo and Redo also called outside Exec, driven by the
\* calls that grow, truncate and reset the history
SpecDirect == Init /\ [][NextDirect]_vars

\* cl.Exec(cl.Sum), the count on top of the stack
ExecSum == DoExec([name |-> "Sum", arg |-> 0])

\* what the dialogs and units answer to conv
ConvAnswers ==
    {[kind |-> "cancel", val |-> zero], [kind |-> "fail", val |-> zero]}
      \cup {[kind |-> "value", val |-> v] : v \in Vals}

\* cl.Exec(dmenuConv)
ExecConv == \E a \in ConvAnswers : DoExec([name |-> "Conv", arg |-> a])

NextCount ==
    \/ ExecPush
    \/ ExecSum
    \/ ExecConv
    \/ ExecUndo
    \/ EnableHistory

\* the engine driven by pushes, the variadic Sum and conv, with Undo and
\* the history switch
SpecCount == Init /\ [][NextCount]_vars

(***************************************************************************)
(* The stack primitives and the commands called on their own, as a command *)
(* calls them on the working stack in the middle of Exec.  The engine is   *)
(* one with history disabled whose stack is the input stack; only the      *)
(* working stack changes.  op, err and ret record the call as before, with *)
(* op.arg the arguments of the call; run.s0 is the input stack.  A call is *)
(* made on the input stack; dup, push and Rot can be followed by the call  *)
(* that undoes them.                                                       *)
(***************************************************************************)
\* deepest input stack
PrimDepth == MaxDepth + 2

\* the whole numbers on the input stacks: values, and indices and counts too
PrimVals == {Num(n) : n \in 0..MaxVal + 1}

\* the numbers a command may find on top where it pops an index or a count:
\* negative ones, fractions and whole numbers beyond the width of an int
NumVals == Num(0 - MaxVal - 1)..Num(MaxInt + 1)

\* the stacks over S of depth at most d
StacksOf(S, d) == UNION {[1..k -> S] : k \in 0..d}

\* the stacks of the worked examples: Sum of three values, Add and Div
ExampleStacks ==
    {<<Num(3), Num(1), Num(2), Num(3)>>, <<Num(4), Num(3)>>, <<Num(2), Num(10)>>}

\* the input stacks
InputStacks ==
    StacksOf(PrimVals, PrimDepth)
      \cup {<<v>> \o w : v \in NumVals, w \in StacksOf(PrimVals, MaxDepth)}
      \cup ExampleStacks

\* the arguments of a call that takes none
NoArg == [pos |-> 0, num |-> 0, isEndOK |-> FALSE, isDown |-> FALSE, val |-> 0]

\* the record of a call on the stack
PrimCall(name, arg) ==
    [name |-> name, arg |-> arg, via |-> "prim", cut |-> 0, afterCut |-> FALSE]

InitPrim ==
    /\ working \in InputStacks
    /\ keepHist = FALSE
    /\ hist = <<working>>
    /\ cur = 0
    /\ op = PrimCall("input", NoArg)
    /\ err = Nil
    /\ ret = Nil
    /\ run = FreshRun([hist |-> [hist |-> <<working>>, cur |-> 0]])
    /\ mem = [arr |-> <<>>, shared |-> {}]

\* the call name(arg) left the stack w2 and returned the error e and value t
PrimStep(name, arg, w2, e, t) ==
    /\ working' = w2
    /\ op' = PrimCall(name, arg)
    /\ err' = e
    /\ ret' = t
    /\ UNCHANGED <<keepHist, hist, cur, run, mem>>

\* a call on the input stack that returned r = [w, err]
OnInput(name, arg, r) ==
    /\ op.name = "input"
    /\ PrimStep(name, arg, r.w, r.err, r.err)

\* c.dup(pos, num)
PrimDup ==
    \E pos \in (0 - 1)..Len(working), num \in 0..Len(working) + 1 :
        OnInput("dup", [NoArg EXCEPT !.pos = pos, !.num = num],
                dup(working, pos, num))

\* the call after a successful call named before, returning r = [w, err]
After(before, name, r) ==
    /\ op.name = before
    /\ err = Nil
    /\ PrimStep(name, op.arg, r.w, r.err, r.err)

\* c.drop(0, num) after c.dup(pos, num)
PrimDropAfterDup == After("dup", "dup;drop", drop(working, 0, op.arg.num))

\* c.push(v)
PrimPush ==
    \E v \in PrimVals : OnInput("push", [NoArg EXCEPT !.val = v], push(working, v))

\* the call named name popped a value: p = [w, val, err]
PopStep(name, p) == PrimStep(name, op.arg, p.w, p.err, p.val)

\* c.pop() after c.push(v)
PrimPopAfterPush == op.name = "push" /\ err = Nil /\ PopStep("push;pop", pop(working))

\* c.checkRange(pos, num, isEndOK), which returned r = [start, end, err]
CheckRangeStep(arg, r) ==
    /\ op.name = "input"
    /\ PrimStep("checkRange", arg, working, r.err, r)

PrimCheckRange ==
    \E pos \in (0 - 1)..Len(working) + 1, num \in (0 - 1)..Len(working) + 2,
       isEndOK \in BOOLEAN :
        CheckRangeStep([NoArg EXCEPT !.pos = pos, !.num = num, !.isEndOK = isEndOK],
                       checkRange(working, pos, num, isEndOK))

\* the result r = [c, err] of a command as the stack it left and its error
OfCmd(r) == [w |-> r.c.working, err |-> r.err]

\* a command called on the input stack, which returned r = [c, err]
CmdStep(name, r) == OnInput(name, NoArg, OfCmd(r))

\* c.Rot(), with the index on top of the input stack
CmdRot == CmdStep("Rot", Rot(Self))

\* the index of the input stack pushed again after Rot
PrimPushAfterRot == After("Rot", "Rot;push", push(working, run.s0[1]))

\* c.Unrot() after Rot and the push of the same index
CmdUnrotAfterRot ==
    After("Rot;push", "Rot;push;Unrot", OfCmd(Unrot(Self)))

\* c.Sum(), with the count on top of the input stack
CmdSum == CmdStep("Sum", Sum(Self))

\* a command that applies the operator o to y and x, called on the input stack
\* where the result is a number of the model
BinaryStep(name, o, r) ==
    /\ Len(working) >= 2 => Representable(working[2], o, working[1])
    /\ CmdStep(name, r)

CmdAdd == BinaryStep("Add", "+", Add(Self))
CmdSub == BinaryStep("Sub", "-", Sub(Self))
CmdMul == BinaryStep("Mul", "*", Mul(Self))
CmdDiv == BinaryStep("Div", "/", Div(Self))
CmdIntDiv == BinaryStep("IntDiv", "div", IntDiv(Self))

\* a call on the input stack that popped an integer: r = [w, n, err]
PopIntStep(name, r) ==
    /\ op.name = "input"
    /\ PrimStep(name, NoArg, r.w, r.err, r.n)

\* c.popIndex()
PrimPopIndex == PopIntStep("popIndex", popIndex(working))

\* c.popCount()
PrimPopCount == PopIntStep("popCount", popCount(working))

\* c.Floor()
CmdFloor == CmdStep("Floor", Floor(Self))

\* c.pop()
PrimPop == op.name = "input" /\ PopStep("pop", pop(working))

\* c.RectToPolar(), the evaluator returning sq for the root and at for the
\* arc tangent
CmdRectToPolar ==
    \E sq \in EvalOutcomes, at \in EvalOutcomes :
        CmdStep("RectToPolar", RectToPolar(Self, sq, at))

\* c.PolarToRect(), the evaluator returning co for the cosine and si for the
\* sine
CmdPolarToRect ==
    \E co \in EvalOutcomes, si \in EvalOutcomes :
        CmdStep("PolarToRect", PolarToRect(Self, co, si))

\* the calls that take a position and a count run on the input stacks of
\* pushed values
OfPushed == ValuesOf(working) \subseteq Vals

\* c.Hypot(), the evaluator returning sq for the root
CmdHypot == \E sq \in EvalOutcomes : CmdStep("Hypot", Hypot(Self, sq))

\* the last fold step at which the evaluator of the model fails
MaxFold == MaxDepth

\* the answers of the evaluator to a reducing command
Evaluators == [bad : 0..MaxFold, sq : EvalOutcomes]

\* the operands a variadic command finds on the input stack w: none if the
\* count is no count or exceeds the depth
Operands(n) ==
    IF n.err # Nil \/ n.n > Len(n.w) THEN <<>> ELSE SubSeq(n.w, 1, n.n)

\* a reducing command called on the input stack with the evaluator ev
ReduceStep(name, ev, r) ==
    OnInput(name, [NoArg EXCEPT !.val = ev.bad], OfCmd(r))

\* c.MinN(), the count on top of the input stack
CmdMinN == \E ev \in Evaluators : ReduceStep("MinN", ev, MinN(Self, ev))

\* c.Avg(), the count on top of the input stack and the mean a number of
\* the model
CmdAvg ==
    \E ev \in Evaluators :
        /\ op.name = "input"
        /\ Representable(reduceFloatWith(zero, Operands(popCount(working)), "+", ev.bad).val,
                         "/", Num(Len(Operands(popCount(working)))))
        /\ ReduceStep("Avg", ev, Avg(Self, ev))

\* c.Mag(), the count on top of the input stack
CmdMag == \E ev \in Evaluators : ReduceStep("Mag", ev, Mag(Self, ev))

\* c.rotate(pos, num, isDown)
PrimRotate ==
    /\ OfPushed
    /\ \E pos \in (0 - 1)..Len(working), num \in 0..Len(working) + 1, isDown \in BOOLEAN :
           OnInput("rotate", [NoArg EXCEPT !.pos = pos, !.num = num, !.isDown = isDown],
                   rotate(working, pos, num, isDown))

\* c.rotate(pos, num, false) after c.rotate(pos, num, true) succeeded
PrimRotateUpAfterDown ==
    /\ op.name = "rotate"
    /\ op.arg.isDown
    /\ After("rotate", "rotate;rotate", rotate(working, op.arg.pos, op.arg.num, FALSE))

\* the commands that take an index, a count or both from the input stack
CmdUnrot == CmdStep("Unrot", Unrot(Self))
CmdPick == CmdStep("Pick", Pick(Self))
CmdDropN == CmdStep("DropN", DropN(Self))
CmdDupN == CmdStep("DupN", DupN(Self))
CmdDropR == CmdStep("DropR", DropR(Self))
CmdDupR == CmdStep("DupR", DupR(Self))
CmdRotR == CmdStep("RotR", RotR(Self))
CmdUnrotR == CmdStep("UnrotR", UnrotR(Self))

\* the slices of values handed to insert
InsertVals == {<<Num(1)>>, <<Num(0), Num(1)>>}

\* c.insert(vals, pos)
PrimInsert ==
    \E vs \in InsertVals, pos \in (0 - 1)..Len(working) + 1 :
        OnInput("insert", [NoArg EXCEPT !.pos = pos, !.num = Len(vs)],
                insert(working, vs, pos))

\* a call on the input stack that returned values: r = [w, vals, err]
ValsStep(name, arg, r) ==
    /\ op.name = "input"
    /\ PrimStep(name, arg, r.w, r.err, r.vals)

\* c.remove(pos, num)
PrimRemove ==
    /\ OfPushed
    /\ \E pos \in (0 - 1)..Len(working), num \in 0..Len(working) + 1 :
           ValsStep("remove", [NoArg EXCEPT !.pos = pos, !.num = num],
                    remove(working, pos, num))

\* the result r = [vals, err] of vals with the stack w, which it leaves alone
OfVals(w, r) == [w |-> w, vals |-> r.vals, err |-> r.err]

\* c.vals(pos, num)
PrimPeek ==
    /\ OfPushed
    /\ \E pos \in (0 - 1)..Len(working), num \in 0..Len(working) + 1 :
           ValsStep("vals", [NoArg EXCEPT !.pos = pos, !.num = num],
                    OfVals(working, vals(working, pos, num)))

\* c.drop(pos, num)
PrimDrop ==
    /\ OfPushed
    /\ \E pos \in (0 - 1)..Len(working), num \in 0..Len(working) + 1 :
           OnInput("drop", [NoArg EXCEPT !.pos = pos, !.num = num],
                   drop(working, pos, num))

NextPrim ==
    \/ PrimDup
    \/ PrimDropAfterDup
    \/ PrimPush
    \/ PrimPopAfterPush
    \/ PrimCheckRange
    \/ CmdRot
    \/ PrimPushAfterRot
    \/ CmdUnrotAfterRot
    \/ CmdSum
    \/ CmdAdd
    \/ CmdSub
    \/ CmdMul
    \/ CmdDiv
    \/ PrimPopIndex
    \/ PrimPopCount
    \/ CmdIntDiv
    \/ CmdFloor
    \/ CmdRectToPolar
    \/ CmdPolarToRect
    \/ CmdHypot
    \/ CmdMinN
    \/ CmdAvg
    \/ CmdMag
    \/ PrimRotateUpAfterDown
    \/ CmdUnrot
    \/ CmdPick
    \/ CmdDropN
    \/ CmdDupN
    \/ CmdDropR
    \/ CmdDupR
    \/ CmdRotR
    \/ CmdUnrotR
    \/ PrimPop
    \/ PrimRotate
    \/ PrimInsert
    \/ PrimRemove
    \/ PrimPeek
    \/ PrimDrop

SpecPrim == InitPrim /\ [][NextPrim]_vars

(***************************************************************************)
(* The engine at the level of Go slices.  c.working and the snapshots of   *)
(* the history are slices: hist.push and hist.replace store the slice      *)
(* c.working itself, and insert and remove write into the array behind     *)
(* c.working when append finds room in it.  The object is the record c of  *)
(* before with two more fields:                                            *)
(*   arr     the array behind c.working (its length is cap(c.working)),    *)
(*           of which c.working shows the first len(c.working) cells       *)
(*   shared  the positions of the snapshots that lie in that same array    *)
(* A write into the array shows in every snapshot that shares it; a new    *)
(* array for c.working ends the sharing.  The capacity append gives a new  *)
(* array is the length asked for plus spare cells chosen by the runtime.   *)
(***************************************************************************)
\* c after a write into the array behind c.working: the array is arr2 and
\* c.working shows its first len2 cells
InPlace(c, arr2, len2) ==
    [c EXCEPT !.arr = arr2,
              !.working = SubSeq(arr2, 1, len2),
              !.hist.hist = [i \in DOMAIN c.hist.hist |->
                               IF i \in c.shared
                               THEN SubSeq(arr2, 1, Len(c.hist.hist[i]))
                               ELSE c.hist.hist[i]]]

\* c after append gave c.working a new array holding content
Realloc(c, content, spare) ==
    [c EXCEPT !.arr = content \o [i \in 1..spare |-> zero],
              !.working = content,
              !.shared = {}]

\* Clac.remove on slices, after checkRange returned r: vals is a copy and
\* append(c.working[:start], c.working[end+1:]...) moves the tail in place
removeSliceAt(c, r) ==
    IF r.err # Nil
    THEN [c |-> c, vals |-> <<>>, err |-> r.err]
    ELSE [c |-> InPlace(c, SubSeq(c.arr, 1, r.start)
                             \o SubSeq(c.arr, r.end + 2, Len(c.working))
                             \o SubSeq(c.arr, Len(c.working) - (r.end - r.start),
                                       Len(c.arr)),
                        Len(c.working) - (r.end - r.start + 1)),
          vals |-> SubSeq(c.arr, r.start + 1, r.end + 1),
          err |-> Nil]

\* Clac.remove on slices
removeSlice(c, pos, num) == removeSliceAt(c, checkRange(c.working, pos, num, FALSE))

\* the inner append(vals, c.working[idx:]...) of insert: when vals is the slice
\* c.working[from:from+len(vals)] with room behind it, the tail is written
\* into the array behind c.working (from < 0: vals has an array of its own)
appendInner(c, vs, idx, from) ==
    IF from >= 0 /\ Len(c.working) > idx
         /\ from + Len(vs) + Len(c.working) - idx <= Len(c.arr)
    THEN InPlace(c, SubSeq(c.arr, 1, from + Len(vs))
                      \o SubSeq(c.arr, idx + 1, Len(c.working))
                      \o SubSeq(c.arr, from + Len(vs) + Len(c.working) - idx + 1,
                                Len(c.arr)),
                 Len(c.working))
    ELSE c

\* the outer append(c.working[:idx], x...) of insert
appendOuter(c, idx, x, spare) ==
    IF idx + Len(x) <= Len(c.arr)
    THEN InPlace(c, SubSeq(c.arr, 1, idx) \o x
                      \o SubSeq(c.arr, idx + Len(x) + 1, Len(c.arr)),
                 idx + Len(x))
    ELSE Realloc(c, SubSeq(c.arr, 1, idx) \o x, spare)

\* Clac.insert on slices, after checkRange returned r
insertSliceAt(c, vs, r, from, spare) ==
    IF r.err # Nil
    THEN [c |-> c, err |-> r.err]
    ELSE [c |-> appendOuter(appendInner(c, vs, r.start, from), r.start,
                            vs \o SubSeq(c.arr, r.start + 1, Len(c.working)), spare),
          err |-> Nil]

\* Clac.insert on slices
insertSlice(c, vs, pos, from, spare) ==
    insertSliceAt(c, vs, checkRange(c.working, pos, 1, TRUE), from, spare)

\* Clac.dup on slices, after checkRange (in vals) returned r: vals is the
\* slice c.working[start:end+1]
dupSliceAt(c, r, spare) ==
    IF r.err # Nil
    THEN [c |-> c, err |-> r.err]
    ELSE insertSlice(c, SubSeq(c.arr, r.start + 1, r.end + 1), 0, r.start, spare)

\* Clac.dup on slices
dupSlice(c, pos, num, spare) ==
    dupSliceAt(c, checkRange(c.working, pos, num, FALSE), spare)

\* Clac.rotate on slices, after remove returned r
rotateSliceOf(r, to, spare) ==
    IF r.err # Nil THEN [c |-> r.c, err |-> r.err]
    ELSE insertSlice(r.c, r.vals, to, 0 - 1, spare)

\* Clac.drop on slices, after remove returned r
dropSliceOf(r) == [c |-> r.c, err |-> r.err]

\* the commands on slices
CommandSlice(c, cmd, spare) ==
    CASE cmd.name = "Push" -> insertSlice(c, <<cmd.arg>>, 0, 0 - 1, spare)
      [] cmd.name = "Drop" -> dropSliceOf(removeSlice(c, 0, 1))
      [] cmd.name = "Dup" -> dupSlice(c, 0, 1, spare)
      [] cmd.name = "Swap" -> rotateSliceOf(removeSlice(c, 1, 1), 0, spare)
      [] cmd.name = "Undo" -> Undo(c)
      [] cmd.name = "Redo" -> Redo(c)

\* the commit step of Exec on slices: the history stores the slice c.working
commitSlice(c) ==
    [commit(c) EXCEPT !.shared = IF c.keepHist
                                 THEN {i \in c.shared : i <= c.hist.cur + 1}
                                        \cup {c.hist.cur + 2}
                                 ELSE c.shared \cup {c.hist.cur + 1}]

\* variant of updateWorking that takes the slice of the history, not a copy
updateWorkingSliceNoCopy(c, spare) ==
    IF c.hist.cur + 1 \in c.shared
    THEN [c EXCEPT !.working = histStack(c.hist)]
    ELSE [c EXCEPT !.arr = histStack(c.hist),
                   !.working = histStack(c.hist),
                   !.shared = {c.hist.cur + 1}]

\* Clac.updateWorking on slices: append(Stack{}, c.hist.stack()...)
updateWorkingSlice(c, spare) ==
    Realloc(c, histStack(c.hist), IF histStack(c.hist) = <<>> THEN 0 ELSE spare)

\* Clac.Exec on slices, after the command returned r = [c, err]
ExecSliceOf(r, spare) ==
    [c |-> updateWorkingSlice(IF r.err = Nil THEN commitSlice(r.c) ELSE r.c, spare),
     err |-> r.err,
     ret |-> IF r.err = ErrNoHistUpdate THEN Nil ELSE r.err]

\* Clac.Exec on slices
ExecSlice(c, cmd, spare) == ExecSliceOf(CommandSlice(c, cmd, spare), spare)

\* Clac.EnableHistory on slices: the new history shares no array
EnableHistorySlice(c, enable) ==
    IF ~enable
    THEN [EnableHistoryOf(c, enable) EXCEPT !.shared = {}]
    ELSE EnableHistoryOf(c, enable)

\* the Clac object of the current state with its slices
SelfSlice ==
    [working |-> working, keepHist |-> keepHist,
     hist |-> [hist |-> hist, cur |-> cur], arr |-> mem.arr, shared |-> mem.shared]

\* the object with its slices becomes c2 after the call o
BecomesSlice(c2, o, e, t) ==
    /\ Becomes(c2, o, e, t)
    /\ mem' = [arr |-> c2.arr, shared |-> c2.shared]
    /\ UNCHANGED run

\* the step of cl.Exec(cmd) on slices that returned res
ExecSliceStep(cmd, res) ==
    /\ InBounds(SelfSlice, cmd, res)
    /\ Len(res.c.hist.hist) <= MaxRun
    /\ BecomesSlice(res.c, Call(cmd.name, cmd.arg, "Exec", Discarded(SelfSlice, res)),
                    res.err, res.ret)

\* cl.Exec(cmd) on slices, with the spare cells the runtime gives this call
DoExecSlice(cmd) ==
    \E spare \in 0..MaxSpare : ExecSliceStep(cmd, ExecSlice(SelfSlice, cmd, spare))

SlicePush == \E v \in Vals : DoExecSlice([name |-> "Push", arg |-> v])
SliceDrop == DoExecSlice([name |-> "Drop", arg |-> 0])
SliceDup == DoExecSlice([name |-> "Dup", arg |-> 0])
SliceSwap == DoExecSlice([name |-> "Swap", arg |-> 0])
SliceUndo == DoExecSlice([name |-> "Undo", arg |-> 0])
SliceRedo == DoExecSlice([name |-> "Redo", arg |-> 0])

\* a direct call of Clac.EnableHistory on slices
SliceEnableHistory ==
    \E enable \in BOOLEAN :
        BecomesSlice(EnableHistorySlice(SelfSlice, enable),
                     Call("EnableHistory", IF enable THEN 1 ELSE 0, "direct", 0),
                     Nil, Nil)

NextSlice ==
    \/ SlicePush
    \/ SliceDrop
    \/ SliceDup
    \/ SliceSwap
    \/ SliceUndo
    \/ SliceRedo
    \/ SliceEnableHistory

SpecSlice == Init /\ [][NextSlice]_vars

(***************************************************************************)
(* Properties of the history and of Exec.                                  *)
(***************************************************************************)
\* the last call ran a command through Exec
ViaExec(o) == o.via = "Exec"

\* the last call ran a stack command through Exec and the command returned nil
Committed(o, e) == ViaExec(o) /\ o.name \in StackCmds /\ e = Nil

\* the run of commands is complete and has been undone call for call
Undone == run.n + run.m >= 1 /\ run.u = run.n + run.m /\ run.r = 0

\* the run has been undone and then redone call for call
Redone == run.n + run.m >= 1 /\ run.r = run.n + run.m

\* C1 as stated: in retain mode, after n commands that each succeed through
\* Exec (Exec returns nil) from a history state with stack S0, n Undo calls
\* bring the stack back to S0 and n Redo calls after them bring it back to
\* the stack that held after the n-th command.
C1_UndoRedoAnySuccess ==
    /\ Undone => working = run.s0
    /\ Redone => working = run.sN

\* C1 amended: the same round trip for n commands that each return nil
\* themselves, i.e. that each commit a snapshot.
C1_UndoRedoRoundTrip ==
    /\ (Undone /\ run.m = 0) => working = run.s0
    /\ (Redone /\ run.m = 0) => working = run.sN

\* two committed commands, undone twice and redone twice, with a visible effect
C1_Witness ==
    /\ keepHist
    /\ Redone
    /\ run.m = 0
    /\ run.n >= 2
    /\ run.sN # run.s0
    /\ working = run.sN

\* C2: in retain mode, when a command that returned nil has been committed
\* over a history with redoable snapshots (after Undo), the next Redo through
\* Exec returns ErrNoMoreChanges and leaves stack, history and cursor unchanged.
C2_CommitDiscardsRedo ==
    [][(/\ keepHist
        /\ Committed(op, err)
        /\ op.cut >= 1
        /\ ViaExec(op')
        /\ op'.name = "Redo")
       => (/\ ret' = ErrNoMoreChanges
           /\ working' = working
           /\ hist' = hist
           /\ cur' = cur)]_vars

\* Redo has just failed right after a commit that discarded redoable snapshots
C2_Witness ==
    /\ keepHist
    /\ ViaExec(op)
    /\ op.name = "Redo"
    /\ ret = ErrNoMoreChanges
    /\ op.afterCut
    /\ cur = Len(hist) - 1
    /\ cur >= 1

\* C3: the history is never empty and the cursor is an index into it; after
\* New or Reset the history is the single empty snapshot with cursor 0.
C3_HistoryWellFormed ==
    /\ Len(hist) >= 1
    /\ 0 <= cur
    /\ cur <= Len(hist) - 1
    /\ op.name \in {"New", "Reset"} => (hist = << <<>> >> /\ cur = 0)

\* a full history with the cursor moved back to its first snapshot by Undo
C3_Witness ==
    /\ ViaExec(op)
    /\ op.name = "Undo"
    /\ ret = Nil
    /\ Len(hist) = MaxHist
    /\ cur = 0

\* C4 as stated: between public calls the working stack equals the history
\* snapshot at the cursor.
C4_WorkingIsSnapshot == working = hist[cur + 1]

\* C5 as stated: a command that returns an error other than ErrNoHistUpdate
\* through Exec leaves the stack, the history and the cursor unchanged.
C5_FailedCommandChangesNothing ==
    [][(ViaExec(op') /\ err' \notin {Nil, ErrNoHistUpdate})
       => (working' = working /\ hist' = hist /\ cur' = cur)]_vars

\* C6: Exec never returns ErrNoHistUpdate; when the command returns it, Exec
\* returns nil and commits nothing: the history is the one the command left
\* (unchanged for Undo, Redo and Clear, the fresh history for Reset), and the
\* cursor moved only as the command moved it.
C6_NoHistUpdateIsSwallowed ==
    [][ViaExec(op')
       => (/\ ret' # ErrNoHistUpdate
           /\ err' = ErrNoHistUpdate
                => (/\ ret' = Nil
                    /\ op'.name # "Reset" => hist' = hist
                    /\ op'.name = "Reset" => (hist' = << <<>> >> /\ cur' = 0)
                    /\ op'.name = "Clear" => cur' = cur
                    /\ op'.name = "Undo" => cur' = cur - 1
                    /\ op'.name = "Redo" => cur' = cur + 1))]_vars

\* an Undo through Exec has succeeded over a history of several snapshots
C6_Witness ==
    /\ ViaExec(op)
    /\ op.name = "Undo"
    /\ err = ErrNoHistUpdate
    /\ ret = Nil
    /\ Len(hist) >= 3

\* C7: while history is disabled the history has length 1 and the cursor is 0;
\* a command that returned nil has overwritten the single snapshot with its
\* result, and every Undo and Redo has returned ErrNoMoreChanges.
C7_EphemeralHistoryStaysSingle ==
    ~keepHist
      => (/\ Len(hist) = 1
          /\ cur = 0
          /\ (ViaExec(op) /\ err = Nil) => hist = <<working>>
          /\ (ViaExec(op) /\ op.name \in {"Undo", "Redo"}) => ret = ErrNoMoreChanges)

\* with history disabled, an Undo has failed on a stack built by two commands
C7_Witness ==
    /\ ~keepHist
    /\ ViaExec(op)
    /\ op.name = "Undo"
    /\ ret = ErrNoMoreChanges
    /\ Len(working) >= 2
    /\ hist = <<working>>

\* C8: right after EnableHistory(false) the history is the single empty
\* snapshot with cursor 0, and neither Undo nor Redo can move.
C8_DisableCollapsesHistory ==
    (op.name = "EnableHistory" /\ op.arg = 0)
      => (/\ hist = << <<>> >>
          /\ cur = 0
          /\ Undo(Self).err = ErrNoMoreChanges
          /\ Redo(Self).err = ErrNoMoreChanges)

\* EnableHistory(false) called on an engine that had committed two values
C8_Witness ==
    /\ op.name = "EnableHistory"
    /\ op.arg = 0
    /\ Len(working) >= 2
    /\ hist = << <<>> >>

\* C9: after Reset through Exec the stack is empty, the history is the single
\* empty snapshot with cursor 0, Exec returned nil, and Undo and Redo through
\* Exec both return ErrNoMoreChanges.
C9_ResetThroughExec ==
    (ViaExec(op) /\ op.name = "Reset")
      => (/\ working = <<>>
          /\ hist = << <<>> >>
          /\ cur = 0
          /\ ret = Nil
          /\ Exec(Self, [name |-> "Undo", arg |-> 0]).ret = ErrNoMoreChanges
          /\ Exec(Self, [name |-> "Redo", arg |-> 0]).ret = ErrNoMoreChanges)

\* Reset through Exec right after a commit that discarded redoable snapshots
C9_Witness ==
    /\ ViaExec(op)
    /\ op.name = "Reset"
    /\ ret = Nil
    /\ op.afterCut
    /\ working = <<>>

\* C10: Undo at cursor 0 and Redo at the last snapshot return ErrNoMoreChanges
\* and change neither cursor, history nor stack; anywhere else Undo decrements
\* and Redo increments the cursor by exactly 1 (history and stack untouched by
\* the call itself).
C10_UndoRedoAtTheEnds ==
    [][(op'.via = "direct" /\ op'.name \in {"Undo", "Redo"})
       => LET atEnd == IF op'.name = "Undo" THEN cur = 0 ELSE cur = Len(hist) - 1
              step == IF op'.name = "Undo" THEN 0 - 1 ELSE 1
          IN  /\ hist' = hist
              /\ working' = working
              /\ atEnd => (ret' = ErrNoMoreChanges /\ cur' = cur)
              /\ ~atEnd => (ret' = ErrNoHistUpdate /\ cur' = cur + step)]_vars

\* a direct Redo has failed at the tail of a full history
C10_Witness ==
    /\ op.via = "direct"
    /\ op.name = "Redo"
    /\ ret = ErrNoMoreChanges
    /\ cur = Len(hist) - 1
    /\ Len(hist) = MaxHist

(***************************************************************************)
(* Properties of the stack primitives and of the commands.                 *)
(***************************************************************************)
\* the range of num values at pos lies inside the stack w
InRange(w, pos, num) == pos >= 0 /\ num >= 1 /\ pos + num - 1 < Len(w)

\* C11: for every stack and every (pos, count) with count >= 1, pos >= 0 and
\* pos + count - 1 < length, dup(pos, count) succeeds and puts a copy of the
\* elements at indices pos..pos+count-1 on top, in the same order, above the
\* unchanged stack; drop(0, count) after it gives back the stack before dup.
C11_DupThenDrop ==
    /\ (op.name = "dup" /\ InRange(run.s0, op.arg.pos, op.arg.num))
          => (/\ err = Nil
              /\ working = SubSeq(run.s0, op.arg.pos + 1, op.arg.pos + op.arg.num)
                              \o run.s0)
    /\ op.name = "dup;drop" => (err = Nil /\ working = run.s0)

\* drop has undone the dup of two different values from below the top
C11_Witness ==
    /\ op.name = "dup;drop"
    /\ op.arg.pos >= 1
    /\ op.arg.num >= 2
    /\ run.s0[op.arg.pos + 1] # run.s0[op.arg.pos + 2]
    /\ run.s0[1] # run.s0[op.arg.pos + 1]
    /\ working = run.s0

\* C12: for every stack and value v, push(v) succeeds and puts v on top of the
\* unchanged stack; pop() after it returns v and leaves the stack as it was
\* before the push, with the same length and the same elements in order.
C12_PushThenPop ==
    /\ op.name = "push" => (err = Nil /\ working = <<op.arg.val>> \o run.s0)
    /\ op.name = "push;pop"
          => (err = Nil /\ ret = op.arg.val /\ working = run.s0)

\* pop has returned a value pushed on a stack whose top and bottom differ from it
C12_Witness ==
    /\ op.name = "push;pop"
    /\ ret = op.arg.val
    /\ Len(run.s0) >= 2
    /\ run.s0[1] # ret
    /\ run.s0[Len(run.s0)] # ret
    /\ working = run.s0

\* C13: checkRange(pos, count, allowEnd) returns ErrInvalidArg for every triple
\* with pos < 0 or count < 1, and ErrTooFewArgs for every other triple whose
\* start or end index is >= length (length + 1 when allowEnd); in every other
\* case, and only then, it succeeds, with 0 <= start = pos <= end =
\* pos + count - 1 < that bound.
C13_CheckRange ==
    op.name = "checkRange"
      => LET pos == op.arg.pos
             end == op.arg.pos + op.arg.num - 1
             bound == IF op.arg.isEndOK THEN Len(working) + 1 ELSE Len(working)
         IN  /\ (pos < 0 \/ op.arg.num < 1) => err = ErrInvalidArg
             /\ (pos >= 0 /\ op.arg.num >= 1 /\ (pos >= bound \/ end >= bound))
                   => err = ErrTooFewArgs
             /\ (pos >= 0 /\ op.arg.num >= 1 /\ pos < bound /\ end < bound)
                   => err = Nil
             /\ err = Nil
                   => (/\ ret.start = pos
                       /\ ret.end = end
                       /\ 0 <= ret.start
                       /\ ret.start <= ret.end
                       /\ ret.end < bound)

\* checkRange has accepted the position just past the bottom of a stack, which
\* it accepts for insert only, and a range of several values
C13_Witness ==
    /\ op.name = "checkRange"
    /\ err = Nil
    /\ op.arg.isEndOK
    /\ op.arg.num >= 2
    /\ ret.end = Len(working)
    /\ ret.start >= 1

\* the number v, rounded toward zero, is the whole number n
TruncatesTo(v, n) ==
    IF v >= 0 THEN Num(n) <= v /\ v < Num(n + 1) ELSE Num(n - 1) < v /\ v <= Num(n)

\* the stack S with the element at index i moved to the top
Rotated(S, i) == <<S[i + 1]>> \o SubSeq(S, 1, i) \o SubSeq(S, i + 2, Len(S))

\* C14: for every stack S and every valid index i (popped from the top), Rot
\* succeeds and leaves the elements of S with the one formerly at index i at
\* index 0, those formerly at 0..i-1 one place further down and the others in
\* place; Unrot with the same index i after it restores S.
C14_RotThenUnrot ==
    \A i \in 0..Len(run.s0) - 2 :
        (Len(run.s0) >= 1 /\ TruncatesTo(run.s0[1], i))
          => (/\ op.name = "Rot" => (err = Nil /\ working = Rotated(Tail(run.s0), i))
              /\ op.name = "Rot;push;Unrot" => (err = Nil /\ working = Tail(run.s0)))

\* Unrot has restored a stack of three different values after Rot with index 2
C14_Witness ==
    /\ op.name = "Rot;push;Unrot"
    /\ Len(run.s0) >= 4
    /\ run.s0[1] = Num(2)
    /\ run.s0[2] # run.s0[3]
    /\ run.s0[3] # run.s0[4]
    /\ run.s0[2] # run.s0[4]
    /\ working = Tail(run.s0)

\* C15: Sum pops the count n from the top, removes exactly the next n
\* elements and pushes exactly one result, their sum: the depth afterwards is
\* the depth before (count included) minus n, and the elements below the n
\* operands are untouched.
C15_SumTakesCountOperands ==
    \A n \in 1..Len(run.s0) - 1 :
        (op.name = "Sum" /\ TruncatesTo(run.s0[1], n))
          => LET sum[k \in 0..n] == IF k = 0 THEN 0 ELSE sum[k - 1] + run.s0[k + 1]
             IN  /\ err = Nil
                 /\ Len(working) = Len(run.s0) - n
                 /\ working[1] = sum[n]
                 /\ Tail(working) = SubSeq(run.s0, n + 2, Len(run.s0))
                 /\ run.s0 = <<Num(3), Num(1), Num(2), Num(3)>> => working = <<Num(6)>>

\* Sum has added two different values and has left another value below
C15_Witness ==
    /\ op.name = "Sum"
    /\ err = Nil
    /\ Len(run.s0) = 4
    /\ run.s0[1] = Num(2)
    /\ run.s0[2] # run.s0[3]
    /\ run.s0[3] # run.s0[4]
    /\ working = <<run.s0[2] + run.s0[3], run.s0[4]>>

\* C16: a binary operation (Add, Sub, Mul, Div) replaces the top two values
\* x (index 0) and y (index 1) by the single value y op x and leaves the rest
\* of the stack unchanged (Div with x # 0); Add on x = 4, y = 3 yields [7] and
\* Div on x = 2, y = 10 yields [5].
C16_BinaryReplacesTopTwo ==
    (Len(run.s0) >= 2 /\ op.name \in {"Add", "Sub", "Mul", "Div"})
      => LET x == run.s0[1]
             y == run.s0[2]
             rest == SubSeq(run.s0, 3, Len(run.s0))
         IN  /\ op.name = "Add" => (err = Nil /\ working = <<y + x>> \o rest)
             /\ op.name = "Sub" => (err = Nil /\ working = <<y - x>> \o rest)
             /\ op.name = "Mul"
                   => (err = Nil /\ working = <<(y * x) \div Unit>> \o rest)
             /\ (op.name = "Div" /\ x # 0)
                   => (/\ err = Nil
                       /\ Len(working) = Len(run.s0) - 1
                       /\ working[1] * x = y * Unit
                       /\ Tail(working) = rest)
             /\ (op.name = "Add" /\ run.s0 = <<Num(4), Num(3)>>)
                   => working = <<Num(7)>>
             /\ (op.name = "Div" /\ run.s0 = <<Num(2), Num(10)>>)
                   => working = <<Num(5)>>

\* Div has divided y = 2 by x = 1 above another value
C16_Witness ==
    /\ op.name = "Div"
    /\ err = Nil
    /\ run.s0 = <<Num(1), Num(2), Num(0)>>
    /\ working = <<Num(2), Num(0)>>

\* C17: a snapshot stored in the history is never modified by a later call:
\* across every call, each history entry that the call keeps (one that a commit
\* in retain mode does not truncate away, in a history that EnableHistory(false)
\* does not replace) has the contents it had before, whatever insert, remove,
\* dup and rotate wrote into the array behind the working stack; the one
\* exception is the entry at the cursor that a commit overwrites while history
\* is disabled.
C17_SnapshotsAreNeverModified ==
    [][\A i \in 1..Len(hist) :
          (/\ i <= Len(hist')
           /\ (ViaExec(op') /\ err' = Nil /\ keepHist) => i <= cur + 1
           /\ ~(op'.name = "EnableHistory" /\ op'.arg = 0)
           /\ ~(ViaExec(op') /\ err' = Nil /\ ~keepHist /\ i = cur + 1))
            => hist'[i] = hist[i]]_vars

\* Swap has rearranged the working stack in place and has been committed next
\* to the snapshot of the stack before it
C17_Witness ==
    /\ keepHist
    /\ ViaExec(op)
    /\ op.name = "Swap"
    /\ err = Nil
    /\ cur = 1
    /\ Len(hist[1]) = 2
    /\ hist[1][1] # hist[1][2]
    /\ hist[2] = <<hist[1][2], hist[1][1]>>
    /\ working = hist[2]
    /\ mem.shared = {}

\* C18: popIndex accepts exactly the popped values whose truncation (toward
\* zero) is a value.Int >= 0, and popCount exactly those whose truncation is a
\* value.Int >= 1, returning the truncation and leaving the stack below; a
\* value whose truncation is below the bound or is no value.Int makes the call
\* fail with ErrInvalidArg.
C18_PopIndexAndPopCount ==
    (op.name \in {"popIndex", "popCount"} /\ Len(run.s0) >= 1)
      => IF \E n \in (IF op.name = "popIndex" THEN 0 ELSE 1)..MaxInt :
                TruncatesTo(run.s0[1], n)
         THEN /\ err = Nil
              /\ TruncatesTo(run.s0[1], ret)
              /\ working = Tail(run.s0)
         ELSE err = ErrInvalidArg

\* popIndex has accepted a negative fraction, which truncates to 0
C18_Witness ==
    /\ op.name = "popIndex"
    /\ Len(run.s0) >= 2
    /\ run.s0[1] < 0
    /\ err = Nil
    /\ ret = 0
    /\ working = Tail(run.s0)

\* C19 as stated: a variadic operation (Sum) whose popped count is less than 1
\* fails with the OutOfRange error.
C19_CountBelowOneIsOutOfRange ==
    (op.name = "Sum" /\ Len(run.s0) >= 1 /\ run.s0[1] < Num(1))
      => err = ErrOutOfRange

\* C19 amended: a variadic operation (Sum) whose popped count is less than 1
\* fails with ErrInvalidArg, the count having been popped.
C19_CountBelowOneIsInvalidArg ==
    (op.name = "Sum" /\ Len(run.s0) >= 1 /\ run.s0[1] < Num(1))
      => (err = ErrInvalidArg /\ working = Tail(run.s0))

\* Sum has failed on the count 0 above two values
C19_Witness ==
    /\ op.name = "Sum"
    /\ Len(run.s0) >= 3
    /\ run.s0[1] = Num(0)
    /\ err = ErrInvalidArg
    /\ working = Tail(run.s0)

\* C20: when the command returns an error other than ErrNoHistUpdate, Exec
\* commits nothing (the history and the cursor are exactly as the command left
\* them, nothing appended or overwritten), refreshes the working stack to the
\* snapshot at the cursor, and returns that same error.
C20_ErrorSkipsCommit ==
    [][(ViaExec(op') /\ err' \notin {Nil, ErrNoHistUpdate})
       => (/\ hist' = Command(Self, [name |-> op'.name, arg |-> op'.arg]).c.hist.hist
           /\ cur' = Command(Self, [name |-> op'.name, arg |-> op'.arg]).c.hist.cur
           /\ Len(hist') = Len(hist)
           /\ working' = hist'[cur' + 1]
           /\ ret' = err')]_vars

\* DropN has popped its count and then failed, in retain mode with a snapshot
\* to redo: the stack is back to the snapshot at the cursor, count included
C20_Witness ==
    /\ keepHist
    /\ ViaExec(op)
    /\ op.name = "DropN"
    /\ err = ErrTooFewArgs
    /\ ret = ErrTooFewArgs
    /\ cur < Len(hist) - 1
    /\ working = <<Num(1)>>
    /\ working = hist[cur + 1]

\* the stack the command of the call o leaves when it is run on the object c
Result(c, o) == Command(c, [name |-> o.name, arg |-> o.arg]).c.working

\* C21: in retain mode a command that returns nil through Exec produces
\* exactly one new snapshot: the snapshots at indices 0..c (c the cursor before
\* the call) are unchanged, every snapshot after c is discarded, the new
\* snapshot, equal to the working stack the command left, is stored at c + 1,
\* and the cursor becomes c + 1 = len(hist) - 1.
C21_CommitAppendsOneSnapshot ==
    [][(ViaExec(op') /\ err' = Nil /\ keepHist)
       => (/\ SubSeq(hist', 1, cur + 1) = SubSeq(hist, 1, cur + 1)
           /\ Len(hist') = cur + 2
           /\ hist'[cur + 2] = Result(Self, op')
           /\ cur' = cur + 1
           /\ cur' = Len(hist') - 1)]_vars

\* Swap has been committed in the middle of a history, over two snapshots
\* that Undo had left to redo
C21_Witness ==
    /\ keepHist
    /\ ViaExec(op)
    /\ op.name = "Swap"
    /\ err = Nil
    /\ op.cut >= 2
    /\ cur = 1
    /\ Len(hist) = 2
    /\ hist[2] = <<hist[1][2], hist[1][1]>>
    /\ hist[1][1] # hist[1][2]

\* C22 as stated: at the moment Exec invokes the command, the working stack
\* equals the history snapshot at the cursor, after any sequence of public
\* calls including EnableHistory, Reset, Undo and Redo.
C22_CommandStartsFromSnapshot ==
    [][ViaExec(op') => working = hist[cur + 1]]_vars

\* C23: a successful Undo or Redo run through Exec changes only the cursor,
\* by exactly one, and the working stack, which becomes the snapshot at the new
\* cursor; the history sequence (its length and every snapshot) and the
\* history mode are unchanged, so navigation never creates a history entry.
C23_NavigationKeepsHistory ==
    [][(ViaExec(op') /\ op'.name \in {"Undo", "Redo"} /\ ret' = Nil)
       => (/\ hist' = hist
           /\ keepHist' = keepHist
           /\ cur' = (IF op'.name = "Undo" THEN cur - 1 ELSE cur + 1)
           /\ working' = hist[cur' + 1])]_vars

\* Redo through Exec has moved the cursor to the middle of a full history
C23_Witness ==
    /\ ViaExec(op)
    /\ op.name = "Redo"
    /\ ret = Nil
    /\ Len(hist) = MaxHist
    /\ cur = 1
    /\ working = hist[2]
    /\ hist[2] # hist[1]
    /\ hist[2] # hist[3]

\* the stack S with its top num values moved down to start at index to
MovedUp(S, num, to) ==
    SubSeq(S, num + 1, num + to) \o SubSeq(S, 1, num) \o SubSeq(S, num + to + 1, Len(S))

\* the stack S with the num values from index pos on moved to the top
MovedDown(S, pos, num) ==
    SubSeq(S, pos + 1, pos + num) \o SubSeq(S, 1, pos) \o SubSeq(S, pos + num + 1, Len(S))

\* rotate(pos, num, down) on the stack S moves the range at pos to index 0
RotatesDown(S, pos, num) ==
    (op.arg.isDown /\ InRange(S, pos, num))
      => (err = Nil /\ working = MovedDown(S, pos, num))

\* rotate(pos, num, up) on the stack S moves the range at index 0 to index to
RotatesUpTo(S, num, to) ==
    (~op.arg.isDown /\ InRange(S, 0, num) /\ to >= 0 /\ to <= Len(S) - num)
      => (err = Nil /\ working = MovedUp(S, num, to))

\* C24 as stated: rotate(pos, count, up) removes the count-length range at
\* index 0 and re-inserts it starting at index pos - count + 1, while
\* rotate(pos, count, down) removes the range starting at pos and re-inserts
\* it at index 0, for every count >= 1.
C24_RotateUpToPosMinusCount ==
    op.name = "rotate"
      => (/\ RotatesUpTo(run.s0, op.arg.num, op.arg.pos - op.arg.num + 1)
          /\ RotatesDown(run.s0, op.arg.pos, op.arg.num))

\* C24 amended: rotate(pos, count, up) removes the count-length range at
\* index 0 and re-inserts it starting at index pos of the remaining stack,
\* while rotate(pos, count, down) removes the range starting at pos and
\* re-inserts it at index 0, for every count >= 1.
C24_RotateUpToPos ==
    op.name = "rotate"
      => (/\ RotatesUpTo(run.s0, op.arg.num, op.arg.pos)
          /\ RotatesDown(run.s0, op.arg.pos, op.arg.num))

\* rotate has moved the top two values of a stack of four one place down
C24_Witness ==
    /\ op.name = "rotate"
    /\ ~op.arg.isDown
    /\ op.arg.num = 2
    /\ op.arg.pos = 1
    /\ err = Nil
    /\ Len(run.s0) = 4
    /\ run.s0[1] # run.s0[2]
    /\ run.s0[2] # run.s0[3]
    /\ working = <<run.s0[3], run.s0[1], run.s0[2], run.s0[4]>>

\* C25: each of the primitives insert, remove, vals, dup and drop validates
\* its range before touching the stack: whenever one of them returns an error,
\* the working stack is identical to what it was before the call; and each
\* returns an error exactly when its range does not lie inside the stack
\* (for insert: when pos is no index of the stack and not the one past its end).
C25_PrimitivesFailWithoutEffect ==
    /\ (op.name \in {"insert", "remove", "vals", "dup", "drop"} /\ err # Nil)
          => working = run.s0
    /\ op.name \in {"remove", "vals", "dup", "drop"}
          => (err = Nil <=> InRange(run.s0, op.arg.pos, op.arg.num))
    /\ op.name = "insert"
          => (err = Nil <=> (op.arg.pos >= 0 /\ op.arg.pos <= Len(run.s0)))

\* remove has failed on a range that starts inside a stack of three values and
\* ends beyond its bottom, and has left the three values
C25_Witness ==
    /\ op.name = "remove"
    /\ err = ErrTooFewArgs
    /\ Len(run.s0) = 3
    /\ op.arg.pos = 1
    /\ op.arg.num = 3
    /\ working = run.s0

\* C26 as stated: rotate(pos, count, direction) performs all of its range
\* checks before any mutation: whenever rotate returns an error (in either
\* direction, for any pos and count) the working stack is identical to what it
\* was before the call.
C26_RotateFailsWithoutEffect ==
    (op.name = "rotate" /\ err # Nil) => working = run.s0

\* the commands of the model that go through applyFloat or applyInt
ApplyCmds == {"Add", "Sub", "Mul", "Div", "Sum", "IntDiv"}

\* C27 as stated: a call to applyFloat or applyInt (fixed or variadic arity) is
\* all-or-nothing at the level of the call itself: either the operands are
\* consumed and exactly one result is pushed, or it returns an error with the
\* working stack identical to its pre-call contents, including when the
\* kernel function fails after the operands were removed.
C27_ApplyIsAllOrNothing ==
    op.name \in ApplyCmds
      => IF err = Nil
         THEN Len(working) = Len(run.s0)
                               - (IF op.name = "Sum" THEN run.s0[1] \div Unit ELSE 1)
         ELSE working = run.s0

\* Sum is run through Exec on a stack whose top is a valid count that exceeds
\* the depth below it, and fails in the range validation
CountExceedsDepth ==
    /\ ViaExec(op')
    /\ op'.name = "Sum"
    /\ popCount(working).err = Nil
    /\ popCount(working).n > Len(working) - 1
    /\ err' = ErrTooFewArgs

\* C28 as stated: when a variadic operation's count pop succeeds but the
\* following range validation fails (the count exceeds the remaining depth),
\* the stack the caller observes through Stack() after running the command
\* through Exec has the count value removed (not restored) and all other
\* elements intact.
C28_CountStaysConsumed ==
    [][CountExceedsDepth => working' = Tail(working)]_vars

\* C28 amended: in that case the stack the caller observes through Stack()
\* after running the command through Exec is the history snapshot at the
\* cursor, history and cursor being unchanged: the removal of the count is
\* discarded with the working stack, so that the count is back in place
\* wherever the working stack was that snapshot when the command started.
C28_CountIsRolledBack ==
    [][CountExceedsDepth
       => (/\ hist' = hist
           /\ cur' = cur
           /\ working' = hist[cur + 1]
           /\ working = hist[cur + 1] => working' = working)]_vars

\* Sum through Exec has failed on the count 1 with nothing below it, and the
\* stack shows the count again
C28_Witness ==
    /\ ViaExec(op)
    /\ op.name = "Sum"
    /\ err = ErrTooFewArgs
    /\ ret = ErrTooFewArgs
    /\ keepHist
    /\ working = <<Num(1)>>
    /\ hist[cur + 1] = <<Num(1)>>

\* the number of operands of the fixed-arity commands of the model
Arity(name) == IF name = "Floor" THEN 1 ELSE 2

\* C29: an operation that needs more operands than the stack holds fails with
\* ErrTooFewArgs and removes nothing: pop on an empty stack, and remove(0,
\* arity) inside a fixed-arity operation when length < arity (Add on a
\* one-element stack), return ErrTooFewArgs with the working stack unchanged;
\* with enough operands neither fails that way.
C29_TooFewOperands ==
    /\ op.name = "pop"
          => IF run.s0 = <<>>
             THEN err = ErrTooFewArgs /\ working = run.s0
             ELSE err = Nil /\ ret = run.s0[1] /\ working = Tail(run.s0)
    /\ op.name \in {"Add", "Sub", "Mul", "Div", "IntDiv", "Floor"}
          => IF Len(run.s0) < Arity(op.name)
             THEN err = ErrTooFewArgs /\ working = run.s0
             ELSE err # ErrTooFewArgs

\* Add has failed on a stack of one value and has left it
C29_Witness ==
    /\ op.name = "Add"
    /\ err = ErrTooFewArgs
    /\ Len(run.s0) = 1
    /\ run.s0[1] = Num(1)
    /\ working = run.s0

\* the stack S without its top n values, or without all it has
Popped(S, n) == SubSeq(S, (IF n < Len(S) THEN n ELSE Len(S)) + 1, Len(S))

\* C30 as stated: RectToPolar and PolarToRect pop both operands before
\* pushing anything, and if any pop or any intermediate numeric computation
\* fails they push no value at all (the working stack gains no element during
\* the call: it is the stack before the call without the operands popped) and
\* return the error.
C30_PolarPushesNothingOnError ==
    (op.name \in {"RectToPolar", "PolarToRect"} /\ err # Nil)
      => working = Popped(run.s0, 2)

\* C31 as stated: Hypot on a stack holding at least two values removes the
\* top two values x and y and pushes exactly one result (the depth decreases
\* by 1) without any out-of-range access to its operand list; on a stack with
\* fewer than two values it fails with ErrTooFewArgs.
C31_HypotTakesTwo ==
    op.name = "Hypot"
      => /\ err # PanicIndex
         /\ Len(run.s0) < 2 => err = ErrTooFewArgs
         /\ (Len(run.s0) >= 2 /\ err = Nil)
               => /\ Len(working) = Len(run.s0) - 1
                  /\ Tail(working) = Popped(run.s0, 2)

\* the reducing commands of the model
ReduceCmds == {"MinN", "Avg", "Mag"}

\* the evaluator failed in a step of the fold of the last call: the count
\* was one, no more than the depth below it, and the step one of the fold's
StepFailed ==
    /\ op.name \in ReduceCmds
    /\ popCount(run.s0).err = Nil
    /\ popCount(run.s0).n <= Len(run.s0) - 1
    /\ op.arg.val >= 1
    /\ op.arg.val <= popCount(run.s0).n

\* C32 as stated: if any evaluator step fails while a reducing operation
\* (here MinN, Avg, Mag) folds its operands left to right, the operation
\* returns that first failure and pushes no result: the stack is the one
\* before the call without the count and the operands.
C32_FoldReturnsFirstFailure ==
    StepFailed
      => /\ err = ErrIvy
         /\ working = Popped(run.s0, 1 + popCount(run.s0).n)

\* the command Redo, as Exec runs it
RedoCmd == [name |-> "Redo", arg |-> 0]

\* a step that leaves the redo branch intact: the history is as long as it
\* was, the snapshots after the cursor are the same, and Redo through Exec
\* succeeds afterwards with the stack it would have given before the step
LeavesRedoBranch ==
    /\ Len(hist') = Len(hist)
    /\ SubSeq(hist', cur + 2, Len(hist')) = SubSeq(hist, cur + 2, Len(hist))
    /\ Exec(Self', RedoCmd).ret = Nil
    /\ Exec(Self', RedoCmd).c.working = Exec(Self, RedoCmd).c.working

\* C33 as stated: in retain mode, after an Undo (the cursor is before the
\* last snapshot), a command that fails or that returns ErrNoHistUpdate, run
\* through Exec, leaves the redo branch intact.
C33_NoCommitKeepsRedo ==
    [][(keepHist /\ cur < Len(hist) - 1 /\ ViaExec(op') /\ err' # Nil)
       => LeavesRedoBranch]_vars

\* C33 amended: the same for a command other than Undo, Redo and Reset, the
\* three commands whose purpose is to move or replace the history; cursor
\* and history are then unchanged altogether.
C33_NoCommitOfStackCmdKeepsRedo ==
    [][(/\ keepHist
        /\ cur < Len(hist) - 1
        /\ ViaExec(op')
        /\ op'.name \notin {"Undo", "Redo", "Reset"}
        /\ err' # Nil)
       => (LeavesRedoBranch /\ hist' = hist /\ cur' = cur)]_vars

\* Add has failed on a one-value stack that Undo had brought back, with the
\* two-value stack still there to redo
C33_Witness ==
    /\ keepHist
    /\ ViaExec(op)
    /\ op.name = "Add"
    /\ ret = ErrTooFewArgs
    /\ Len(hist) = 3
    /\ cur = 1
    /\ Len(hist[3]) = 2
    /\ working = hist[2]
    /\ Len(working) = 1

\* conv through Exec has popped a value and a dialog was cancelled
ConvCancelled ==
    /\ ViaExec(op')
    /\ op'.name = "Conv"
    /\ err' = ErrNoHistUpdate

\* C34 as stated: when a command returns ErrNoHistUpdate after it has already
\* mutated the working stack (conv pops a value and then returns the
\* sentinel), Exec discards the mutation: Stack() afterwards equals the
\* history snapshot at the cursor and the popped value is back on the stack.
C34_SentinelDiscardsMutation ==
    [][ConvCancelled
       => (/\ ret' = Nil
           /\ hist' = hist
           /\ cur' = cur
           /\ working' = hist[cur + 1]
           /\ working' = working)]_vars

\* the command Undo, as Exec runs it
UndoCmd == [name |-> "Undo", arg |-> 0]

\* Clear through Exec has committed the empty stack as the one new snapshot
\* after the cursor
ClearCommitted ==
    /\ ret' = Nil
    /\ SubSeq(hist', 1, cur + 1) = SubSeq(hist, 1, cur + 1)
    /\ Len(hist') = cur + 2
    /\ hist'[cur + 2] = <<>>
    /\ cur' = cur + 1
    /\ working' = <<>>

\* C35 as stated (in retain mode, where a commit is a new snapshot): Clear
\* run through Exec on a non-empty stack commits exactly one new snapshot, the
\* empty stack, so that a single Undo restores the previous stack; Clear on an
\* empty stack adds no history entry and Exec returns nil.
C35_ClearIsOneUndoableStep ==
    [][(keepHist /\ ViaExec(op') /\ op'.name = "Clear")
       => IF working # <<>>
          THEN /\ ClearCommitted
               /\ Exec(Self', UndoCmd).ret = Nil
               /\ Exec(Self', UndoCmd).c.working = working
          ELSE ret' = Nil /\ hist' = hist /\ cur' = cur /\ working' = <<>>]_vars

\* the number of times v occurs in S
Count(S, v) == Cardinality({i \in 1..Len(S) : S[i] = v})

\* S and T hold the same values the same number of times
SameBag(S, T) ==
    \A v \in ValuesOf(S) \cup ValuesOf(T) : Count(S, v) = Count(T, v)

\* C36: for every stack and every (pos, count) for which rotate(pos, count,
\* down) succeeds, a following rotate(pos, count, up) with the same pos and
\* count succeeds and restores the original stack, and each of the two calls
\* preserves the multiset of stack elements.
C36_RotateUpUndoesDown ==
    /\ op.name = "rotate;rotate" => (err = Nil /\ working = run.s0)
    /\ (op.name \in {"rotate", "rotate;rotate"} /\ err = Nil)
          => SameBag(working, run.s0)

\* a range of two values that starts at index 1 of a four-value stack went to
\* the top and back
C36_Witness ==
    /\ op.name = "rotate;rotate"
    /\ op.arg.pos = 1
    /\ op.arg.num = 2
    /\ err = Nil
    /\ Len(run.s0) = 4
    /\ run.s0[1] # run.s0[2]
    /\ run.s0[3] # run.s0[4]
    /\ working = run.s0

\* the commands that pop a count from x and then an index from y, those that
\* pop an index from x and those that pop a count from x
RangeCmds == {"DupR", "DropR", "RotR", "UnrotR"}
IndexCmds == {"Pick", "Rot", "Unrot"}
CountCmds == {"DupN", "DropN"}

\* the value at place i of the stack S, as a stack of its own; empty if S has
\* no such place
Slot(S, i) == IF i <= Len(S) THEN <<S[i]>> ELSE <<>>

\* what C37 says the command name takes from the stack S: the start index
\* pos and the count num, whether both are an index and a count (ok), and the
\* stack rest they are interpreted against
ArgsOf(name, S) ==
    IF name \in RangeCmds
    THEN [ok |-> Len(S) >= 2 /\ popCount(Slot(S, 1)).err = Nil
                              /\ popIndex(Slot(S, 2)).err = Nil,
          num |-> popCount(Slot(S, 1)).n,
          pos |-> popIndex(Slot(S, 2)).n,
          rest |-> Popped(S, 2)]
    ELSE IF name \in IndexCmds
    THEN [ok |-> Len(S) >= 1 /\ popIndex(Slot(S, 1)).err = Nil,
          num |-> 1,
          pos |-> popIndex(Slot(S, 1)).n,
          rest |-> Popped(S, 1)]
    ELSE [ok |-> Len(S) >= 1 /\ popCount(Slot(S, 1)).err = Nil,
          num |-> popCount(Slot(S, 1)).n,
          pos |-> 0,
          rest |-> Popped(S, 1)]

\* the stack the command name leaves with the arguments a
Expected(name, a) ==
    CASE name \in {"DupR", "DupN", "Pick"} ->
           SubSeq(a.rest, a.pos + 1, a.pos + a.num) \o a.rest
      [] name \in {"DropR", "DropN"} ->
           SubSeq(a.rest, 1, a.pos) \o SubSeq(a.rest, a.pos + a.num + 1, Len(a.rest))
      [] name \in {"RotR", "Rot"} -> MovedDown(a.rest, a.pos, a.num)
      [] name \in {"UnrotR", "Unrot"} -> MovedUp(a.rest, a.num, a.pos)

\* the call of the command name succeeded exactly on arguments in range and
\* left the stack expected
TakesArgs(name, a) ==
    /\ err = Nil <=> (a.ok /\ a.pos + a.num <= Len(a.rest))
    /\ err = Nil => working = Expected(name, a)

\* C37: DupR, DropR, RotR and UnrotR pop the count first (from x, the top)
\* and then the start index (from y); Pick, Rot and Unrot pop their index from
\* x; DupN and DropN pop their count from x; in every case the index and the
\* range are interpreted against the stack as it is after these pops, so that
\* Pick with index 0 duplicates the value that was directly below the index.
C37_ArgumentsFromTheTop ==
    /\ op.name \in RangeCmds \cup IndexCmds \cup CountCmds
          => TakesArgs(op.name, ArgsOf(op.name, run.s0))
    /\ (op.name = "Pick" /\ Len(run.s0) >= 2 /\ run.s0[1] = Num(0))
          => (err = Nil /\ working = <<run.s0[2]>> \o Tail(run.s0))

\* DupR has taken the count 2 from x and the index 0 from y and copied the two
\* values below them, which it could not have done with 0 as the count
C37_Witness ==
    /\ op.name = "DupR"
    /\ err = Nil
    /\ Len(run.s0) = 4
    /\ run.s0[1] = Num(2)
    /\ run.s0[2] = Num(0)
    /\ run.s0[3] # run.s0[4]
    /\ working = <<run.s0[3], run.s0[4], run.s0[3], run.s0[4]>>

====
